---- MODULE Spec2Model ----
(***************************************************************************)
(* squashfs-rs: the metablock stream writer, the two-level table, the     *)
(* parallel compressor and the directory table, as state machines.        *)
(*                                                                         *)
(* Byte strings are sequences of runs.  A run [id, lo, hi, z, of] stands   *)
(* for the bytes lo..hi-1 of the buffer `id`:                              *)
(*   id >= 0  bytes lo..hi-1 of input buffer id (z: the bytes are zero)     *)
(*   id = -1  hi-lo zero bytes that nobody appended (Vec::resize filler)    *)
(*   id = -2  hi-lo bytes of codec output that decompress to `of`           *)
(*   id = -3  hi-lo bytes of a codec stream that began in another request   *)
(***************************************************************************)
EXTENDS Integers, Sequences, FiniteSets, TLC

VARIABLES
    build,          \* how the crate was built: overflow checks, flate2 backend
    compressor,     \* the codec kind bound to the pool, "none" when no pool
    threads,        \* the pool's worker threads: liveness, codec state, job
    output,         \* MetablockWriter.output, one element per write_output
    current_block,  \* MetablockWriter.current_block
    writer,         \* "open", "finished" or "panicked"
    appended,       \* every byte handed to write_raw so far, in order
    refs,           \* position() taken before each append, with that byte's offset
    index,          \* two_level::Table.index
    item,           \* the two-level table's T: size_of::<T>() and whether it is zeros
    requests,       \* every Request handed to the pool, with where it is now
    sinks,          \* the reply sink of each request: open or dropped, and what arrived
    caller,         \* the thread that submits: "running" or "panicked"
    total_size,     \* dir::Table.total_size
    dirs,           \* the DirectoryInfo of every dir() that returned, with its listing
    groups,         \* every header with its entries that DirBuilder::flush wrote
    ids,            \* uid_gid::Table.ids
    known_ids,      \* uid_gid::Table.known_ids
    id_calls,       \* every add(id) that returned, with the index it returned
    count,          \* inode::Table.count
    inodes,         \* every inode handed to the writer: its entry, header and body
    items,          \* write::Archive.items
    root,           \* write::Archive.root, -1 for ItemRef(usize::MAX)
    uid_gid,        \* write::Archive.uid_gid
    file,           \* every write the archive's file took, in order
    archive,        \* "open", "panicked" (unwinding) or "dropped"
    ops,            \* every operation on the archive that ended, with how it ended
    block_read,     \* the last call of read_metablock: its arguments and how it went
    opened,         \* the last call of read::Archive::with_logger, in the same way
    features,       \* the cargo features of the build that name a codec
    packed,         \* the last to_packed and the from_packed of what it returned
    tried,          \* the last call of packed_serialize::try_read and how it went
    pool_items,     \* pool::Pool.items: the length of each idle buffer
    pool_capacity,  \* items.capacity() of the pool
    handles,        \* the Handles each thread holds: the length of each one's buffer
    getting,        \* the threads inside a call that acquires a buffer
    last_get,       \* the last acquisition: the pool before it and the buffer it gave
    last_return,    \* the last return_item: the pool before it and what became of the item
    sender,         \* ParallelCompressor.sender: "open" or "dropped"
    returned,       \* the workers whose thread_fn returned
    joiner,         \* Joiner::drop: where it stands and the thread it joins next
    ingest,         \* the running handle_file: its file, its locals, what it handed on
    diffed,         \* the last call of inode_diff: its arguments and what it gave
    builder         \* the DirBuilder in the caller's hands: its entries in the map's
                    \* order, and the calls of add_item it took

writerVars == <<output, current_block, writer, appended, refs, index, item>>

poolVars == <<requests, sinks, caller>>

dirVars == <<total_size, dirs, groups>>

idVars == <<ids, known_ids, id_calls>>

\* the state of the tables and files of the later sections
inodeVars == <<count, inodes>>

archiveVars == <<items, root, uid_gid, file, archive, ops>>

readVars == <<block_read, opened>>

\* the state of the sections after the archive reader
bufVars == <<pool_items, pool_capacity, handles, getting, last_get, last_return>>

dropVars == <<sender, returned, joiner>>

\* the state of the sections after the buffer pool
lastVars == <<diffed, builder>>

tailVars == <<dropVars, ingest, lastVars>>

lateVars == <<features, packed, tried, bufVars, tailVars>>

moreVars == <<idVars, inodeVars, archiveVars, readVars, lateVars>>

vars == <<build, compressor, threads, writerVars, poolVars, dirVars, moreVars>>

-----------------------------------------------------------------------------
\* Program constants

SIZE == 8192

COMPRESSED_FLAG == 32768

\* Bounds of the model

MaxAppends == 3

MaxThreads == 2

-----------------------------------------------------------------------------
\* Byte strings

Run(id, lo, hi, z) == [id |-> id, lo |-> lo, hi |-> hi, z |-> z, of |-> <<>>]

Bytes(id, lo, hi, z) == IF hi > lo THEN <<Run(id, lo, hi, z)>> ELSE <<>>

Zeros(n) == Bytes(-1, 0, n, TRUE)

Blob(n, src) == [id |-> -2, lo |-> 0, hi |-> n, z |-> FALSE, of |-> src]

RECURSIVE ByteLen(_)
ByteLen(b) == IF b = <<>> THEN 0 ELSE (b[1].hi - b[1].lo) + ByteLen(Tail(b))

Joins(r, s) == r.id >= 0 /\ r.id = s.id /\ r.z = s.z /\ r.hi = s.lo

\* Vec::extend_from_slice
Extend(a, b) ==
    IF b = <<>> THEN a
    ELSE IF a = <<>> THEN b
    ELSE IF Joins(a[Len(a)], b[1])
         THEN SubSeq(a, 1, Len(a) - 1)
              \o <<[a[Len(a)] EXCEPT !.hi = b[1].hi]>> \o Tail(b)
         ELSE a \o b

\* the first n bytes, n <= Len(b); a codec-output run is cut as opaque bytes
RECURSIVE Take(_, _)
Take(b, n) ==
    IF n <= 0 \/ b = <<>> THEN <<>>
    ELSE LET l == b[1].hi - b[1].lo IN
         IF l <= n THEN <<b[1]>> \o Take(Tail(b), n - l)
         ELSE <<[b[1] EXCEPT !.hi = b[1].lo + n]>>

\* what is left after the first n bytes
RECURSIVE Drop(_, _)
Drop(b, n) ==
    IF n <= 0 \/ b = <<>> THEN b
    ELSE LET l == b[1].hi - b[1].lo IN
         IF l <= n THEN Drop(Tail(b), n - l)
         ELSE <<[b[1] EXCEPT !.lo = b[1].lo + n]>> \o Tail(b)

-----------------------------------------------------------------------------
\* Codecs (src/src/compression)

\* bytes a deflate or zstd frame of src needs: a fixed frame, incompressible
\* bytes as they are, a run of zeros at one byte per 256
RECURSIVE PackedSize(_)
PackedSize(src) ==
    IF src = <<>> THEN 8
    ELSE (IF src[1].z THEN (src[1].hi - src[1].lo + 255) \div 256
                      ELSE src[1].hi - src[1].lo)
         + PackedSize(Tail(src))

Min(a, b) == IF a < b THEN a ELSE b

FreshStream == [total_in |-> 0, total_out |-> 0, done |-> FALSE]

\* Codec::new: a compressor and a decompressor, each with its own stream
FreshCodec == [total_in |-> 0, total_out |-> 0, done |-> FALSE, decomp |-> FreshStream]

min_mem(file_size, mem_size) == IF file_size < mem_size THEN file_size ELSE mem_size

\* GzipCompressor::compress: the flate2 stream is never reset, so total_in and
\* total_out run on from the requests this compressor served before.
\* The result is the set of outcomes [status, n, dst, codec].
GzipCompress(c, src, dst_len) ==
    LET out_offset == min_mem(c.total_out, dst_len)
        in_offset == min_mem(c.total_in, ByteLen(src))
        short(tot_in) == [status |-> "UnexpectedEof", n |-> 0, dst |-> Zeros(dst_len),
                          codec |-> [c EXCEPT !.total_in = tot_in, !.total_out = dst_len]]
        stale(n) == [status |-> "Ok", n |-> n,
                     dst |-> Zeros(out_offset) \o Bytes(-3, out_offset, dst_len, FALSE),
                     codec |-> [c EXCEPT !.total_in = ByteLen(src), !.total_out = n, !.done = TRUE]]
    IN
    IF out_offset = dst_len
    THEN \* no room at all: BufError before the stream is touched
         {[status |-> "UnexpectedEof", n |-> 0, dst |-> Zeros(dst_len), codec |-> c]}
    ELSE IF c.done
    THEN \* the stream ended in an earlier request
         IF build.zlib /\ in_offset < ByteLen(src)
         THEN {[status |-> "UnexpectedEof", n |-> 0, dst |-> Zeros(dst_len), codec |-> c]}
         ELSE {[status |-> "Ok", n |-> c.total_out, dst |-> Zeros(dst_len), codec |-> c]}
    ELSE IF c.total_in = 0 /\ c.total_out = 0
    THEN \* a fresh stream
         IF PackedSize(src) <= dst_len
         THEN {[status |-> "Ok", n |-> PackedSize(src),
                dst |-> <<Blob(PackedSize(src), src)>> \o Zeros(dst_len - PackedSize(src)),
                codec |-> [c EXCEPT !.total_in = ByteLen(src),
                                    !.total_out = PackedSize(src), !.done = TRUE]]}
         ELSE {short(ByteLen(src))}
    ELSE \* a stream an earlier request left unfinished goes on into this dst
         {short(ByteLen(src)), stale(dst_len)}

\* ZstdCompressor::compress: zstd::bulk keeps nothing between calls; a
\* destination that is too small is an io::Error of kind Other
ZstdCompress(c, src, dst_len) ==
    IF PackedSize(src) <= dst_len
    THEN {[status |-> "Ok", n |-> PackedSize(src),
           dst |-> <<Blob(PackedSize(src), src)>> \o Zeros(dst_len - PackedSize(src)),
           codec |-> c]}
    ELSE {[status |-> "Other", n |-> 0, dst |-> Zeros(dst_len), codec |-> c]}

\* AnyCodec::compress
CodecCompress(kind, c, src, dst_len) ==
    IF kind = "gzip" THEN GzipCompress(c, src, dst_len) ELSE ZstdCompress(c, src, dst_len)

\* a whole codec frame: what the decompressor accepts
IsFrame(data) ==
    /\ Len(data) = 1
    /\ data[1].id = -2
    /\ data[1].lo = 0
    /\ data[1].hi = PackedSize(data[1].of)

\* GzipDecompressor::decompress: like the compressor, the flate2 stream is
\* never reset; what a used stream makes of new input is either an error or
\* bytes that are not the input's
GzipDecompress(c, src, dst_len) ==
    LET d == c.decomp
        used == [c EXCEPT !.decomp = [total_in |-> ByteLen(src),
                                       total_out |-> Min(ByteLen(src[1].of), dst_len),
                                       done |-> ByteLen(src[1].of) <= dst_len]]
    IN
    IF d.total_in = 0 /\ d.total_out = 0 /\ ~d.done
    THEN IF ~IsFrame(src)
         THEN {[status |-> "Err", n |-> 0, dst |-> Zeros(dst_len), codec |-> c]}
         ELSE IF ByteLen(src[1].of) <= dst_len
         THEN {[status |-> "Ok", n |-> ByteLen(src[1].of),
                dst |-> src[1].of \o Zeros(dst_len - ByteLen(src[1].of)), codec |-> used]}
         ELSE {[status |-> "Err", n |-> 0, dst |-> Zeros(dst_len), codec |-> used]}
    ELSE {[status |-> "Err", n |-> 0, dst |-> Zeros(dst_len), codec |-> c],
          [status |-> "Ok", n |-> min_mem(d.total_out, dst_len),
           dst |-> Bytes(-3, 0, dst_len, FALSE), codec |-> c]}

\* ZstdDecompressor::decompress
ZstdDecompress(c, src, dst_len) ==
    IF IsFrame(src) /\ ByteLen(src[1].of) <= dst_len
    THEN {[status |-> "Ok", n |-> ByteLen(src[1].of),
           dst |-> src[1].of \o Zeros(dst_len - ByteLen(src[1].of)), codec |-> c]}
    ELSE {[status |-> "Err", n |-> 0, dst |-> Zeros(dst_len), codec |-> c]}

\* AnyCodec::decompress
CodecDecompress(kind, c, src, dst_len) ==
    IF kind = "gzip" THEN GzipDecompress(c, src, dst_len) ELSE ZstdDecompress(c, src, dst_len)

-----------------------------------------------------------------------------
\* The worker of the parallel compressor (src/src/compress_threads.rs)

\* thread_fn, the Compress arm, on the codec state c of the serving thread:
\* the set of outcomes [panic, data, compressed, codec]
CompressArm(kind, c, src) ==
    IF ByteLen(src) = 0
    THEN \* src.len() - 1 underflows: an overflow panic, or resize(usize::MAX)
         {[panic |-> TRUE, data |-> <<>>, compressed |-> FALSE, codec |-> c]}
    ELSE {IF o.status = "Ok"
          THEN [panic |-> FALSE, data |-> Take(o.dst, o.n), compressed |-> TRUE,
                codec |-> o.codec]
          ELSE IF o.status = "UnexpectedEof"
          THEN [panic |-> FALSE, data |-> src, compressed |-> FALSE, codec |-> o.codec]
          ELSE [panic |-> TRUE, data |-> <<>>, compressed |-> FALSE, codec |-> o.codec]
          : o \in CodecCompress(kind, c, src, ByteLen(src) - 1)}

Alive == {w \in DOMAIN threads : threads[w].alive}

Builds == [overflow_checks : BOOLEAN, zlib : BOOLEAN]

Codecs == {"none", "gzip", "zstd"}

InitPool ==
    /\ build \in Builds
    /\ compressor \in Codecs
    /\ build.zlib => compressor = "gzip"
    /\ \E n \in IF compressor = "none" THEN {0} ELSE 1..MaxThreads :
         threads = [w \in 1..n |-> [alive |-> TRUE, codec |-> FreshCodec, job |-> 0]]

InitWriter ==
    /\ output = <<>>
    /\ current_block = <<>>
    /\ writer = "open"
    /\ appended = <<>>
    /\ refs = <<>>
    /\ index = <<>>

InitCaller ==
    /\ requests = <<>>
    /\ sinks = <<>>
    /\ caller = "running"

\* dir::Table::new
InitDirTable ==
    /\ total_size = 0
    /\ dirs = <<>>
    /\ groups = <<>>

\* uid_gid::Table::new
InitIdTable ==
    /\ ids = <<>>
    /\ known_ids = <<>>
    /\ id_calls = <<>>

\* inode::Table::new, without its writer
InitInodeTable ==
    /\ count = 0
    /\ inodes = <<>>

\* ArchiveBuilder::build
InitArchive ==
    /\ items = <<>>
    /\ root = -1
    /\ uid_gid = {}
    /\ file = <<>>
    /\ archive = "open"
    /\ ops = <<>>

\* nothing was read yet
InitReader ==
    /\ block_read = [called |-> FALSE]
    /\ opened = [called |-> FALSE]

\* the features of compression/mod.rs that have a codec module
AllFeatures == {"gzip", "zstd"}

\* no packed record was written or read yet
InitPacked ==
    /\ packed = [called |-> FALSE]
    /\ tried = [called |-> FALSE]

\* the threads that use the buffer pool, and the cores num_cpus::get() counts
BufThreads == {1, 2}

Cpus == {1, 2}

\* Pool::new(size, capacity): `size` new items in a Vec::with_capacity(capacity)
PoolNew(size, capacity) ==
    /\ pool_items = [k \in 1..size |-> 0]
    /\ pool_capacity = IF size > capacity THEN size ELSE capacity

\* pool::blocks() on a machine of `cpus` cores: Pool::new(threads, threads * 2),
\* before any buffer is taken
InitBlocks(cpus) ==
    /\ PoolNew(cpus, cpus * 2)
    /\ handles = [t \in BufThreads |-> <<>>]
    /\ getting = {}
    /\ last_get = [called |-> FALSE]
    /\ last_return = [called |-> FALSE]

\* the ParallelCompressor is in use: nothing of it was dropped
InitSender ==
    /\ sender = "open"
    /\ returned = {}
    /\ joiner = [state |-> "idle", next |-> 1, panicking |-> FALSE]

\* no file is being read into datablocks
InitIngest == ingest = [state |-> "none"]

\* no call of inode_diff yet, and no DirBuilder made
InitLast ==
    /\ diffed = [called |-> FALSE]
    /\ builder = [state |-> "none", uid |-> 0, gid |-> 0, entries |-> <<>>, calls |-> <<>>]

InitRest ==
    /\ InitIdTable /\ InitInodeTable /\ InitArchive /\ InitReader /\ InitPacked
    /\ InitSender /\ InitIngest /\ InitLast

InitTables == InitRest /\ InitBlocks(1)

InitMore == InitTables /\ features = AllFeatures

\* thread_fn, the Decompress arm: the set of outcomes [panic, ok, data, codec]
DecompressArm(kind, c, src, max_size) ==
    {[panic |-> FALSE, ok |-> o.status = "Ok",
      data |-> IF o.status = "Ok" THEN Take(o.dst, o.n) ELSE <<>>,
      compressed |-> FALSE, codec |-> o.codec]
     : o \in CodecDecompress(kind, c, src, max_size)}

\* what a worker makes of one request
Served(kind, c, req) ==
    IF req.request_type = "Compress"
    THEN {[panic |-> r.panic, ok |-> ~r.panic, data |-> r.data,
           compressed |-> r.compressed, codec |-> r.codec]
          : r \in CompressArm(kind, c, req.data)}
    ELSE DecompressArm(kind, c, req.data, req.max_size)

\* requests the caller may still hand in
MaxRequests == 2

\* the inputs of a compress request number r: empty, one byte (the
\* `uncompressible` of the test), half a metablock of zeros
CompressInputs(r) == {<<>>, Bytes(r, 0, 1, FALSE), Bytes(r, 0, 4096, TRUE)}

\* the inputs of a decompress request number r with their max_size: a frame
\* that fits, bytes that are no frame
DecompressInputs(r) ==
    {<<<<Blob(PackedSize(Bytes(r, 0, 4096, TRUE)), Bytes(r, 0, 4096, TRUE))>>, SIZE>>,
     <<Bytes(r, 0, 16, FALSE), SIZE>>}

Sending == {r \in DOMAIN requests : requests[r].at = "sending"}

\* ParallelCompressor::compress / compress_fut up to the send: the channel is
\* bounded(0), so the caller stays in send until a worker receives
SubmitCompress(data) ==
    /\ caller = "running"
    /\ Sending = {}
    /\ Len(requests) < MaxRequests
    /\ requests' = Append(requests, [request_type |-> "Compress", data |-> data,
                                     max_size |-> 0, at |-> "sending", made |-> <<>>])
    /\ sinks' = Append(sinks, [open |-> TRUE, got |-> <<>>])
    /\ UNCHANGED <<moreVars, build, compressor, dirVars, threads, writerVars, caller>>

\* ParallelCompressor::decompress / decompress_fut up to the send
SubmitDecompress(data, max_size) ==
    /\ caller = "running"
    /\ Sending = {}
    /\ Len(requests) < MaxRequests
    /\ requests' = Append(requests, [request_type |-> "Decompress", data |-> data,
                                     max_size |-> max_size, at |-> "sending", made |-> <<>>])
    /\ sinks' = Append(sinks, [open |-> TRUE, got |-> <<>>])
    /\ UNCHANGED <<moreVars, build, compressor, dirVars, threads, writerVars, caller>>

\* thread_fn: `for request in rx` hands the waiting request to an idle worker
Receive(w) ==
    /\ threads[w].alive
    /\ threads[w].job = 0
    /\ \E r \in Sending :
        /\ threads' = [threads EXCEPT ![w].job = r]
        /\ requests' = [requests EXCEPT ![r].at = "taken"]
    /\ UNCHANGED <<moreVars, build, compressor, dirVars, writerVars, sinks, caller>>

\* replies go to the sink of the latest request
SinkOfLatest(w) == Len(sinks)

\* the sink the worker replies to: the closure the request itself carries
SinkOf(w) == threads[w].job

\* a reply closure that unwraps the result of its send
SendUnwrapped(sink) == ~sink.open

\* `let _ = tx.send(..)` in the reply closure: the Err of a closed receiver
\* is ignored, the send never panics
SendPanics(sink) == FALSE

\* thread_fn: the body of the loop for the request the worker holds
Serve(w) ==
    /\ threads[w].alive
    /\ threads[w].job # 0
    /\ LET r == threads[w].job IN
       \E o \in Served(compressor, threads[w].codec, requests[r]) :
        IF o.panic \/ SendPanics(sinks[SinkOf(w)])
        THEN \* the thread unwinds: its receiver and the reply closure are dropped
             /\ threads' = [threads EXCEPT ![w].alive = FALSE]
             /\ requests' = [requests EXCEPT ![r].at = "lost"]
             /\ sinks' = sinks
        ELSE LET reply == [ok |-> o.ok, data |-> o.data,
                           compressed |-> o.compressed, from |-> r] IN
             /\ threads' = [threads EXCEPT ![w].codec = o.codec, ![w].job = 0]
             /\ requests' = [requests EXCEPT ![r].at = "replied",
                                              ![r].made = Append(@, reply)]
             /\ sinks' = IF sinks[SinkOf(w)].open
                         THEN [sinks EXCEPT ![SinkOf(w)].got = Append(@, reply)]
                         ELSE sinks
    /\ UNCHANGED <<moreVars, build, compressor, dirVars, writerVars, caller>>

\* sender.send(request).unwrap() once every worker has gone: the channel is
\* disconnected, send fails and the caller panics
SendFails ==
    /\ caller = "running"
    /\ Alive = {}
    /\ \E r \in Sending :
        /\ requests' = [requests EXCEPT ![r].at = "lost"]
        /\ caller' = "panicked"
    /\ UNCHANGED <<moreVars, build, compressor, dirVars, threads, writerVars, sinks>>

\* the caller drops the future of a reply it has not received
DropSink(r) ==
    /\ caller = "running"
    /\ r \in DOMAIN sinks
    /\ sinks[r].open
    /\ sinks[r].got = <<>>
    /\ sinks' = [sinks EXCEPT ![r].open = FALSE]
    /\ UNCHANGED <<moreVars, build, compressor, dirVars, threads, writerVars, requests, caller>>

\* with_threads asserts threads > 0 and takes a codec
InitPC ==
    /\ InitPool /\ InitWriter /\ InitCaller /\ InitDirTable /\ InitMore
    /\ compressor # "none"
    /\ build.overflow_checks
    /\ item = [size |-> 0, zero |-> FALSE]

NextPC ==
    \/ \E data \in CompressInputs(Len(requests) + 1) : SubmitCompress(data)
    \/ \E in \in DecompressInputs(Len(requests) + 1) : SubmitDecompress(in[1], in[2])
    \/ \E w \in DOMAIN threads : Receive(w)
    \/ \E w \in DOMAIN threads : Serve(w)
    \/ SendFails
    \/ \E r \in DOMAIN sinks : DropSink(r)

SpecPC == InitPC /\ [][NextPC]_vars

\* Drop of the ParallelCompressor, fields top-down: the sender goes first,
\* which disconnects the channel, then Joiner::drop begins. The owner drops it
\* between two calls, or while it unwinds from a failed send.
DropCompressor ==
    /\ sender = "open"
    /\ Sending = {}
    /\ sender' = "dropped"
    /\ joiner' = [state |-> "joining", next |-> 1, panicking |-> caller = "panicked"]
    /\ UNCHANGED <<returned, build, compressor, threads, writerVars, poolVars, dirVars>>
    /\ UNCHANGED <<idVars, inodeVars, archiveVars, readVars, features, packed, tried, bufVars,
                   ingest, lastVars>>

\* thread_fn: `for request in rx` ends on the disconnected channel
WorkerReturn(w) ==
    /\ threads[w].alive
    /\ threads[w].job = 0
    /\ sender = "dropped"
    /\ threads' = [threads EXCEPT ![w].alive = FALSE]
    /\ returned' = returned \cup {w}
    /\ UNCHANGED <<sender, joiner, build, compressor, writerVars, poolVars, dirVars>>
    /\ UNCHANGED <<idVars, inodeVars, archiveVars, readVars, features, packed, tried, bufVars,
                   ingest, lastVars>>

\* Joiner::drop, one turn of `for t in self.0.drain(..)`: join waits for the
\* thread to end; the Err of a thread that panicked is unwrapped unless the
\* dropping thread is panicking already, and that panic leaves the loop with
\* the handles after it dropped, not joined
Join ==
    /\ joiner.state = "joining"
    /\ ~threads[joiner.next].alive
    /\ joiner' = IF joiner.next \notin returned /\ ~joiner.panicking
                 THEN [joiner EXCEPT !.state = "panicked"]
                 ELSE IF joiner.next = Len(threads)
                 THEN [joiner EXCEPT !.state = "done"]
                 ELSE [joiner EXCEPT !.next = @ + 1]
    /\ UNCHANGED <<sender, returned, build, compressor, threads, writerVars, poolVars, dirVars>>
    /\ UNCHANGED <<idVars, inodeVars, archiveVars, readVars, features, packed, tried, bufVars,
                   ingest, lastVars>>

\* the pool in use, then dropped by its owner
NextDrop ==
    \/ sender = "open" /\ \E data \in CompressInputs(Len(requests) + 1) : SubmitCompress(data)
    \/ sender = "open" /\ \E in \in DecompressInputs(Len(requests) + 1) :
                             SubmitDecompress(in[1], in[2])
    \/ sender = "open" /\ SendFails
    \/ \E w \in DOMAIN threads : Receive(w)
    \/ \E w \in DOMAIN threads : Serve(w)
    \/ \E r \in DOMAIN sinks : DropSink(r)
    \/ DropCompressor
    \/ \E w \in DOMAIN threads : WorkerReturn(w)
    \/ Join

SpecDrop == InitPC /\ [][NextDrop]_vars

-----------------------------------------------------------------------------
\* The metablock writer (src/src/write/metablock_writer.rs)

\* repr::metablock::Header::new: size | COMPRESSED_FLAG
HeaderNew(size, compressed) ==
    IF compressed /\ size % (2 * COMPRESSED_FLAG) < COMPRESSED_FLAG
    THEN size + COMPRESSED_FLAG
    ELSE size

\* repr::metablock::Header::compressed
HeaderCompressed(h) == h % (2 * COMPRESSED_FLAG) >= COMPRESSED_FLAG

\* a size() that keeps thirteen bits of the header
HeaderSizeShort(h) == h % 8192

\* repr::metablock::Header::size
HeaderSize(h) == h % COMPRESSED_FLAG

\* output.len(): every write_output adds two header bytes and the data
RECURSIVE OutputLen(_)
OutputLen(out) == IF out = <<>> THEN 0 ELSE 2 + ByteLen(out[1].data) + OutputLen(Tail(out))

\* repr::metablock::Ref::new with block_start and start_offset read back
RefNew(block_start, offset) == [block_start |-> block_start, start_offset |-> offset]

\* MetablockWriter::position of the writer state st
Position(st) == RefNew(OutputLen(st.output), ByteLen(st.current_block))

\* MetablockWriter::write_output
WriteOutput(out, data, compressed) ==
    Append(out, [header |-> HeaderNew(ByteLen(data), compressed), data |-> data])

\* the writer with its pool, as one value
WriterState == [output |-> output, current_block |-> current_block,
                threads |-> threads, panicked |-> writer = "panicked"]

\* MetablockWriter::flush: the set of states it can end in
Flush(st) ==
    IF st.panicked THEN {st}
    ELSE IF compressor = "none"
    THEN {[st EXCEPT !.output = WriteOutput(@, st.current_block, FALSE),
                     !.current_block = <<>>]}
    ELSE LET live == {w \in DOMAIN st.threads : st.threads[w].alive} IN
         IF live = {}
         THEN \* nobody receives: send fails and compress() unwraps the error
              {[st EXCEPT !.current_block = <<>>, !.panicked = TRUE]}
         ELSE {IF r.panic
               THEN [st EXCEPT !.current_block = <<>>, !.panicked = TRUE,
                               !.threads[w].alive = FALSE]
               ELSE [st EXCEPT !.current_block = <<>>,
                               !.output = WriteOutput(@, r.data, r.compressed),
                               !.threads[w].codec = r.codec]
               : <<w, r>> \in UNION {{<<v, q>> :
                     q \in CompressArm(compressor, st.threads[v].codec, st.current_block)}
                     : v \in live}}

\* MetablockWriter::write_raw: the set of states it can end in
RECURSIVE WriteRaw(_, _)
WriteRaw(st, data) ==
    IF st.panicked THEN {st}
    ELSE IF SIZE - ByteLen(st.current_block) < ByteLen(data)
    THEN LET room == SIZE - ByteLen(st.current_block)
             filled == [st EXCEPT !.current_block = Extend(@, Take(data, room))]
         IN UNION {WriteRaw(s, Drop(data, room)) : s \in Flush(filled)}
    ELSE {[st EXCEPT !.current_block = Extend(@, data)]}

\* the writer and its pool take the state st
Becomes(st, done) ==
    /\ output' = st.output
    /\ current_block' = st.current_block
    /\ threads' = st.threads
    /\ writer' = IF st.panicked THEN "panicked" ELSE IF done THEN "finished" ELSE "open"

\* sizes of the records handed to write
RecordSizes == {0, 1, 8191, 8192, 3 * SIZE + 1}

\* MetablockWriter::write of a record of len bytes; the caller takes
\* position() first, as inode::Table::add does
Write(len, z) ==
    /\ writer = "open"
    /\ item.size = 0
    /\ Len(refs) < MaxAppends
    /\ LET data == Bytes(0, ByteLen(appended), ByteLen(appended) + len, z) IN
       /\ refs' = Append(refs, [pos |-> Position(WriterState),
                                at |-> ByteLen(appended), len |-> len])
       /\ appended' = Extend(appended, data)
       /\ \E st \in WriteRaw(WriterState, data) : Becomes(st, FALSE)
    /\ UNCHANGED <<moreVars, build, compressor, dirVars, index, item, poolVars>>

\* MetablockWriter::finish
Finish ==
    /\ writer = "open"
    /\ item.size = 0
    /\ \E st \in Flush(WriterState) : Becomes(st, TRUE)
    /\ UNCHANGED <<moreVars, build, compressor, dirVars, appended, refs, index, item, poolVars>>

InitMW ==
    /\ InitPool /\ InitWriter /\ InitCaller /\ InitDirTable /\ InitMore
    /\ build.overflow_checks
    /\ item = [size |-> 0, zero |-> FALSE]

NextMW == (\E len \in RecordSizes, z \in BOOLEAN : Write(len, z)) \/ Finish

SpecMW == InitMW /\ [][NextMW]_vars

-----------------------------------------------------------------------------
\* The two-level table (src/src/write/two_level.rs)

MaxBlocks == 2

\* size_of::<T>() of the tables' record types: repr::fragment::Entry is 16
\* bytes; 4096 stands for any larger T that divides a metablock
ItemSizes == {16, 4096}

\* Table::write
TableWrite ==
    /\ writer = "open"
    /\ item.size > 0
    /\ ByteLen(appended) < MaxBlocks * SIZE + item.size
    /\ LET data == Bytes(0, ByteLen(appended), ByteLen(appended) + item.size, item.zero) IN
       /\ appended' = Extend(appended, data)
       /\ \E st \in WriteRaw(WriterState, data) :
            /\ Becomes(st, FALSE)
            /\ index' = IF ~st.panicked /\ Position(st).start_offset = 0
                        THEN Append(index, Position(st).block_start)
                        ELSE index
    /\ UNCHANGED <<moreVars, build, compressor, dirVars, refs, item, poolVars>>

\* Table::finish
TableFinish ==
    /\ writer = "open"
    /\ item.size > 0
    /\ \E st \in Flush(WriterState) : Becomes(st, TRUE)
    /\ UNCHANGED <<moreVars, build, compressor, dirVars, appended, refs, index, item, poolVars>>

\* Table::with_capacity asserts SIZE % size_of::<T>() = 0 and size_of::<T>() < SIZE
InitTable ==
    /\ InitPool /\ InitWriter /\ InitCaller /\ InitDirTable /\ InitMore /\ build.overflow_checks
    /\ item \in [size : {s \in ItemSizes : SIZE % s = 0 /\ s < SIZE}, zero : BOOLEAN]

NextTable == TableWrite \/ TableFinish

SpecTable == InitTable /\ [][NextTable]_vars

\* MetablockWriter::new(None): a writer with no codec bound
InitRaw == InitMW /\ compressor = "none"

SpecRaw == InitRaw /\ [][NextMW]_vars

-----------------------------------------------------------------------------
\* The directory table (src/src/write/dir.rs)
\*
\* A u32 is held as the i32 with the same bits, the value `x as i32` of the
\* source: 0 .. 2^31-1 are themselves, 2^31 .. 2^32-1 are x - 2^32.

\* i32::MAX, the largest value of the `as i32` casts of inode_diff
MaxI32 == 2147483647

MinI32 == -MaxI32 - 1

\* the order of u32 on values held as i32
U32Less(a, b) == IF (a >= 0) = (b >= 0) THEN a < b ELSE a >= 0

\* Ord::clamp on repr::inode::Idx
Clamp(x, min, max) == IF U32Less(x, min) THEN min ELSE IF U32Less(max, x) THEN max ELSE x

\* i16::MIN.unsigned_abs() as u32
MIN_INODE_NUM_REF == 32768

\* u32::MAX - i16::MAX as u32 = 2^32 - 32768, held as i32
MAX_INODE_NUM_REF == -32768

\* i16::try_from succeeds
FitsI16(d) == d >= -32768 /\ d <= 32767

\* inode_diff: (i.0 as i32 - ref_num.0 as i32).try_into().ok().  The i32
\* subtraction panics on overflow when the build checks it and wraps otherwise.
inode_diff(ref_num, i) ==
    LET over == \/ ref_num < 0 /\ i > MaxI32 + ref_num
                \/ ref_num > 0 /\ i < MinI32 + ref_num
    IN IF ~over
       THEN [panic |-> FALSE, some |-> FitsI16(i - ref_num), diff |-> i - ref_num]
       ELSE IF build.overflow_checks
       THEN [panic |-> TRUE, some |-> FALSE, diff |-> 0]
       ELSE LET d == IF ref_num < 0
                     THEN -1 - ((MaxI32 - i) + (ref_num - MinI32))
                     ELSE 1 + ((i - MinI32) + (MaxI32 - ref_num))
            IN [panic |-> FALSE, some |-> FitsI16(d), diff |-> d]

\* size_of::<repr::directory::Header>(): count, start, inode_number
HeaderBytes == 12

\* size_of::<repr::directory::Entry>(): offset, inode_offset, kind, name_size
EntryBytes == 8

\* dir::Entry; the name is kept by its length
DirEntry(block_start, offset, inode_num, name_len) ==
    [inode |-> RefNew(block_start, offset), inode_num |-> inode_num, name_len |-> name_len]

\* Table::start_dir: the builder before the first entry; !0 is held as -1.
\* entries is entries.len(); raw lists the records the buffer holds
start_dir ==
    [header |-> [count |-> 0, start |-> -1, inode_number |-> -1],
     entries |-> 0, raw |-> <<>>, crossed_metablock |-> FALSE]

\* the table, its writer and the builder b of the running dir(), as one value
DirState(b) ==
    [w |-> WriterState, total_size |-> total_size, appended |-> appended,
     groups |-> groups, dir |-> Len(dirs) + 1, builder |-> b]

\* DirBuilder::total_size without the header
TotalSizeNoHeader(d) == d.total_size + d.builder.entries

\* DirBuilder::total_size
BuilderTotalSize(d) == d.total_size + HeaderBytes + d.builder.entries

\* DirBuilder::flush: the set of states it can end in
BuilderFlush(d) ==
    IF d.w.panicked \/ d.builder.header.count = 0 THEN {d}
    ELSE LET n == ByteLen(d.appended)
             hdr == Bytes(0, n, n + HeaderBytes, FALSE)
             ents == Bytes(0, n + HeaderBytes, n + HeaderBytes + d.builder.entries, FALSE)
         IN {[d EXCEPT !.w = s,
                       !.total_size = BuilderTotalSize(d),
                       !.appended = Extend(Extend(@, hdr), ents),
                       !.groups = Append(@, [header |-> d.builder.header, at |-> n,
                                             raw |-> d.builder.raw, dir |-> d.dir]),
                       !.builder = [header |-> [count |-> 0, start |-> 0, inode_number |-> 0],
                                    entries |-> 0, raw |-> <<>>,
                                    crossed_metablock |-> FALSE]]
             : s \in UNION {WriteRaw(h, ents) : h \in WriteRaw(d.w, hdr)}}

\* need_header with the start of the inode metablock left out
NeedHeaderAnyBlock(b, entry) ==
    \/ b.crossed_metablock
    \/ b.header.count >= 256
    \/ ~inode_diff(b.header.inode_number, entry.inode_num).some

\* need_header with the count compared one too late
NeedHeaderLate(b, entry) ==
    \/ b.crossed_metablock
    \/ b.header.count > 256
    \/ b.header.start # entry.inode.block_start
    \/ ~inode_diff(b.header.inode_number, entry.inode_num).some

\* DirBuilder::add_entry, need_header
NeedHeader(b, entry) ==
    \/ b.crossed_metablock
    \/ b.header.count >= 256
    \/ b.header.start # entry.inode.block_start
    \/ ~inode_diff(b.header.inode_number, entry.inode_num).some

\* a panic unwinds out of dir()
Panicked(d) == [d EXCEPT !.w.panicked = TRUE]

\* DirBuilder::add_entry after its flush: [d, header_pos], header_pos holding
\* the Some(position()) of a new header
PushEntry(f, entry, need_header) ==
    LET header == IF need_header
                  THEN [f.builder.header EXCEPT
                          !.start = entry.inode.block_start,
                          !.inode_number = Clamp(entry.inode_num, MIN_INODE_NUM_REF,
                                                 MAX_INODE_NUM_REF)]
                  ELSE f.builder.header
        header_pos == IF need_header THEN <<Position(f.w)>> ELSE <<>>
        g == [f EXCEPT !.builder.header = header]
        prev_metablock == BuilderTotalSize(g) \div SIZE
        diff == inode_diff(header.inode_number, entry.inode_num)
        raw_entry == [offset |-> entry.inode.start_offset,
                      inode_offset |-> diff.diff,
                      name_size |-> IF entry.name_len = 0 THEN 65535 ELSE entry.name_len - 1,
                      name_len |-> entry.name_len,
                      pos |-> g.builder.entries,
                      of |-> entry]
        h == [g EXCEPT !.builder.header.count = @ + 1,
                       !.builder.entries = @ + EntryBytes + entry.name_len,
                       !.builder.raw = Append(@, raw_entry)]
        current_metablock == BuilderTotalSize(h) \div SIZE
    IN IF \/ f.w.panicked
          \/ entry.name_len > 65535
          \/ diff.panic
          \/ ~diff.some
          \/ entry.name_len = 0 /\ build.overflow_checks
       THEN [d |-> Panicked(f), header_pos |-> <<>>]
       ELSE [d |-> [h EXCEPT !.builder.crossed_metablock =
                                @ \/ current_metablock # prev_metablock],
             header_pos |-> header_pos]

\* DirBuilder::add_entry: the set of outcomes [d, header_pos]
add_entry(d, entry) ==
    LET b == d.builder
        reached == /\ ~b.crossed_metablock
                   /\ b.header.count < 256
                   /\ b.header.start = entry.inode.block_start
    IN IF reached /\ inode_diff(b.header.inode_number, entry.inode_num).panic
       THEN {[d |-> Panicked(d), header_pos |-> <<>>]}
       ELSE {PushEntry(f, entry, NeedHeader(b, entry))
             : f \in IF NeedHeader(b, entry) THEN BuilderFlush(d) ELSE {d}}

\* Table::dir, the body of the loop over contents, from each of the
\* outcomes [d, header_refs] in S
DirStep(S, entry) ==
    UNION {{[d |-> r.d, header_refs |-> x.header_refs \o r.header_pos]
            : r \in add_entry(x.d, entry)} : x \in S}

\* Table::dir, the loop over contents[lo..hi], taken in two halves
RECURSIVE DirLoop(_, _, _, _)
DirLoop(S, contents, lo, hi) ==
    IF lo > hi THEN S
    ELSE IF lo = hi THEN DirStep(S, contents[lo])
    ELSE LET mid == (lo + hi) \div 2
             first == DirLoop(S, contents, lo, mid)
         IN IF first = {} THEN {} ELSE DirLoop(first, contents, mid + 1, hi)

\* Bounds of the listings: calls of dir(), and entries of the short listings
MaxDirs == 2

MaxEntries == 3

\* the entries short listings are made of: inode numbers 1, 2 and 100000 of
\* one inode metablock; 65535 and 65536, the last delta from the reference
\* 32768 that fits and the first that does not; an inode of the next inode
\* metablock; a name that ends its entry on the 8 KiB boundary
Entries ==
    {DirEntry(0, 0, 1, 1), DirEntry(0, 32, 2, 1), DirEntry(0, 64, 100000, 1),
     DirEntry(0, 96, 65535, 1), DirEntry(0, 128, 65536, 1),
     DirEntry(8194, 0, 3, 1), DirEntry(0, 160, 3, SIZE - HeaderBytes - EntryBytes)}

\* n children with consecutive inode numbers in one inode metablock, their
\* names of name_len bytes
Plain(n, name_len) == [i \in 1..n |-> DirEntry(0, (32 * i) % SIZE, i, name_len)]

\* the long listings: a header's worth of children, one more, and children
\* whose entries fill the first metablock of the directory stream
LongListings == {Plain(256, 4), Plain(257, 4), Plain(300, 32)}

\* entries handed to dir() so far; a long listing counts as MaxEntries
RECURSIVE Spent(_)
Spent(ds) ==
    IF ds = <<>> THEN 0
    ELSE (IF ds[1].contents \in LongListings THEN MaxEntries ELSE Len(ds[1].contents))
         + Spent(Tail(ds))

\* the listings dir() is called with next: a long listing is the table's first
Listings ==
    (IF dirs = <<>> THEN LongListings ELSE {})
    \cup UNION {[1..k -> Entries] : k \in 0..(MaxEntries - Spent(dirs))}

\* Table::dir
Dir(contents) ==
    /\ writer = "open"
    /\ Len(dirs) < MaxDirs
    /\ LET start_size == total_size IN
       \E r \in DirLoop({[d |-> DirState(start_dir), header_refs |-> <<>>]},
                         contents, 1, Len(contents)) :
         \E f \in BuilderFlush(r.d) :
           /\ Becomes(f.w, FALSE)
           /\ total_size' = f.total_size
           /\ appended' = f.appended
           /\ groups' = f.groups
           /\ dirs' = IF f.w.panicked THEN dirs
                      ELSE Append(dirs, [header_refs |-> r.header_refs,
                                         uncompressed_size |-> f.total_size - start_size,
                                         contents |-> contents,
                                         from |-> ByteLen(appended),
                                         to |-> ByteLen(f.appended)])
    /\ UNCHANGED <<moreVars, build, compressor, refs, index, item, poolVars>>

\* Table::finish
DirFinish ==
    /\ writer = "open"
    /\ \E st \in Flush(WriterState) : Becomes(st, TRUE)
    /\ UNCHANGED <<moreVars, build, compressor, appended, refs, index, item, poolVars, dirVars>>

\* Table::new(None): the directory stream goes to a writer with no codec
InitDir ==
    /\ InitPool /\ InitWriter /\ InitCaller /\ InitDirTable /\ InitMore
    /\ build.overflow_checks
    /\ compressor = "none"
    /\ item = [size |-> 0, zero |-> FALSE]

NextDir == (\E contents \in Listings : Dir(contents)) \/ DirFinish

SpecDir == InitDir /\ [][NextDir]_vars

-----------------------------------------------------------------------------
\* The UID/GID table (src/src/write/uid_gid.rs)

\* u16::MAX
U16_MAX == 65535

\* the ids the callers pass to add
IdValues == {0, 1000, 1001}

MaxIdAdds == 5

\* a HashMap::get that finds nothing
GetNothing(map, key) == {}

\* HashMap::get: an Option as a set, {v} for Some(v) and {} for None
Get(map, key) == IF key \in DOMAIN map THEN {map[key]} ELSE {}

\* HashMap::insert
Insert(map, key, value) ==
    [k \in DOMAIN map \cup {key} |-> IF k = key THEN value ELSE map[k]]

\* uid_gid::Table::add
TableAdd(id) ==
    /\ Len(id_calls) < MaxIdAdds
    /\ LET found == Get(known_ids, id) IN
       IF found # {}
       THEN /\ id_calls' = Append(id_calls, [id |-> id, idx |-> CHOOSE idx \in found : TRUE])
            /\ UNCHANGED <<ids, known_ids>>
       ELSE IF ~(Len(ids) < U16_MAX)
       THEN \* the assertion fails: add returns nothing and stores nothing
            UNCHANGED idVars
       ELSE LET idx == Len(ids) % (U16_MAX + 1) IN
            /\ known_ids' = Insert(known_ids, id, idx)
            /\ ids' = Append(ids, id)
            /\ id_calls' = Append(id_calls, [id |-> id, idx |-> idx])
    /\ UNCHANGED <<lateVars, build, compressor, threads, writerVars, poolVars, dirVars, inodeVars,
                   archiveVars, readVars>>

InitIds ==
    /\ InitPool /\ InitWriter /\ InitCaller /\ InitDirTable /\ InitMore
    /\ build.overflow_checks
    /\ compressor = "none"
    /\ item = [size |-> 0, zero |-> FALSE]

NextIds == \E id \in IdValues : TableAdd(id)

SpecIds == InitIds /\ [][NextIds]_vars


-----------------------------------------------------------------------------
\* The inode table (src/src/write/inode.rs)
\*
\* A u64 is held as [hi, lo], the value hi * 2^32 + lo, with lo the i32 that
\* has the bits of the low word.

MaxInodes == 2

U64(hi, lo) == [hi |-> hi, lo |-> lo]

\* v > 2^32
Above2To32(v) == v.hi > 1 \/ (v.hi = 1 /\ v.lo # 0)

\* v > u32::MAX.into()
AboveU32Max(v) == v.hi # 0

\* v > 0
AboveZero(v) == v.hi # 0 \/ v.lo # 0

\* the xattr index of an inode without extended attributes, 0xFFFF_FFFF
NO_XATTR == -1

\* xattr::Idx::is_some
xattr_is_some(idx) == idx # NO_XATTR

\* repr::inode::dir_stored_size
dir_stored_size(dir_size) == dir_size

\* a needs_ext that looks at force_ext and the xattr index only
needs_ext_by_flags(entry) ==
    entry.common.force_ext \/ xattr_is_some(entry.common.xattr_idx)

\* u32::try_from of a u64 and u16::try_from of a u32, as write_basic_file and
\* write_basic_dir use them: the value if it fits, nothing if it does not
TryU32(v) == IF v.hi = 0 THEN {v.lo} ELSE {}

TryU16(n) == IF n >= 0 /\ n <= U16_MAX THEN {n} ELSE {}

\* Entry::needs_ext
needs_ext(entry) ==
    IF entry.common.force_ext \/ xattr_is_some(entry.common.xattr_idx) THEN TRUE
    ELSE CASE entry.data.tag = "Directory" ->
                entry.data.header_locations # {}
                \/ dir_stored_size(entry.data.dir_size) > U16_MAX
           [] entry.data.tag = "File" ->
                entry.common.hardlink_count > 1
                \/ AboveU32Max(entry.data.blocks_start)
                \/ AboveU32Max(entry.data.file_size)
                \/ AboveZero(entry.data.sparse_bytes)
           [] OTHER -> FALSE

\* repr::inode::Kind, the constants by name
Kinds ==
    [BASIC_DIR |-> 1, BASIC_FILE |-> 2, BASIC_SYMLINK |-> 3, BASIC_BLOCK_DEV |-> 4,
     BASIC_CHAR_DEV |-> 5, BASIC_FIFO |-> 6, BASIC_SOCKET |-> 7,
     EXT_DIR |-> 8, EXT_FILE |-> 9, EXT_SYMLINK |-> 10, EXT_BLOCK_DEV |-> 11,
     EXT_CHAR_DEV |-> 12, EXT_FIFO |-> 13, EXT_SOCKET |-> 14]

\* Data::inode_kind
inode_kind(data, extended) ==
    CASE data.tag = "Directory" -> IF extended THEN Kinds.EXT_DIR ELSE Kinds.BASIC_DIR
      [] data.tag = "File" -> IF extended THEN Kinds.EXT_FILE ELSE Kinds.BASIC_FILE
      [] data.tag = "Symlink" -> IF extended THEN Kinds.EXT_SYMLINK ELSE Kinds.BASIC_SYMLINK
      [] data.tag = "BlockDev" -> IF extended THEN Kinds.EXT_BLOCK_DEV ELSE Kinds.BASIC_BLOCK_DEV
      [] data.tag = "CharDev" -> IF extended THEN Kinds.EXT_CHAR_DEV ELSE Kinds.BASIC_CHAR_DEV
      [] data.tag = "Fifo" -> IF extended THEN Kinds.EXT_FIFO ELSE Kinds.BASIC_FIFO
      [] data.tag = "Socket" -> IF extended THEN Kinds.EXT_SOCKET ELSE Kinds.BASIC_SOCKET

\* the structure Table::add writes after the header
BodyWritten(data, extended) ==
    CASE data.tag = "Directory" -> IF extended THEN "ExtendedDir" ELSE "BasicDir"
      [] data.tag = "File" -> IF extended THEN "ExtendedFile" ELSE "BasicFile"
      [] data.tag = "Symlink" -> "Symlink"
      [] data.tag \in {"BlockDev", "CharDev"} ->
            IF extended THEN "ExtendedDevice" ELSE "BasicDevice"
      [] data.tag \in {"Fifo", "Socket"} -> IF extended THEN "ExtendedIpc" ELSE "BasicIpc"

\* the structure that follows a header of each kind
StructureAfter(kind) ==
    CASE kind = Kinds.BASIC_DIR -> "BasicDir"
      [] kind = Kinds.BASIC_FILE -> "BasicFile"
      [] kind \in {Kinds.BASIC_SYMLINK, Kinds.EXT_SYMLINK} -> "Symlink"
      [] kind \in {Kinds.BASIC_BLOCK_DEV, Kinds.BASIC_CHAR_DEV} -> "BasicDevice"
      [] kind \in {Kinds.BASIC_FIFO, Kinds.BASIC_SOCKET} -> "BasicIpc"
      [] kind = Kinds.EXT_DIR -> "ExtendedDir"
      [] kind = Kinds.EXT_FILE -> "ExtendedFile"
      [] kind \in {Kinds.EXT_BLOCK_DEV, Kinds.EXT_CHAR_DEV} -> "ExtendedDevice"
      [] kind \in {Kinds.EXT_FIFO, Kinds.EXT_SOCKET} -> "ExtendedIpc"

\* size_of of the packed structures of repr::inode
StructSize ==
    [Header |-> 16, BasicDir |-> 16, ExtendedDir |-> 24, BasicFile |-> 16,
     ExtendedFile |-> 40, Symlink |-> 8, BasicDevice |-> 8, ExtendedDevice |-> 12,
     BasicIpc |-> 4, ExtendedIpc |-> 8]

\* size_of::<xattr::Idx>() and of one block size
WordBytes == 4

\* how often the body is handed to the writer: write_basic_dir has the line
\* self.writer.write(&body).await twice, every other arm once
BodyWrites(body) == IF body = "BasicDir" THEN 2 ELSE 1

\* Table::write_symlink: the xattr index it writes after the target, if any
SymlinkTail(common) == IF xattr_is_some(common.xattr_idx) THEN WordBytes ELSE 0

\* a write_symlink that ends every record with an xattr index
SymlinkTailAlways(common) == WordBytes

\* what follows the body structure: block sizes, or the target and its tail
Trailer(entry) ==
    CASE entry.data.tag = "File" -> WordBytes * entry.data.block_sizes
      [] entry.data.tag = "Symlink" -> entry.data.target_len + SymlinkTail(entry.common)
      [] OTHER -> 0

\* write_ext_dir ends in todo!(): the body is written and the call panics
AddPanics(body) == body = "ExtendedDir"

CommonOf(hardlink_count, xattr_idx, force_ext) ==
    [hardlink_count |-> hardlink_count, xattr_idx |-> xattr_idx, force_ext |-> force_ext]

\* a Data with the fields of every variant: dir_size and header_locations of
\* DirData; blocks_start, file_size, sparse_bytes and the number of
\* block_sizes of FileData; the length of target_path of SymlinkData
DataOf(tag, size, locations, start, fsize, sparse, blocks, target) ==
    [tag |-> tag, dir_size |-> size, header_locations |-> locations,
     blocks_start |-> start, file_size |-> fsize,
     sparse_bytes |-> sparse, block_sizes |-> blocks,
     target_len |-> target]

\* the sizes and offsets around u32::MAX: 96, 2^32 - 1, 2^32 and 2^32 + 1
Wide == {U64(0, 96), U64(0, -1), U64(1, 0), U64(1, 1)}

\* the Data the callers pass: Option<Vec<_>> is {} for None and {n} for a
\* list of n header locations
Datas ==
    {DataOf("Directory", d, {}, U64(0, 0), U64(0, 0), U64(0, 0), 0, 0) :
        d \in {3, U16_MAX, U16_MAX + 1, U16_MAX + 2}}
    \cup {DataOf("Directory", 3, {1}, U64(0, 0), U64(0, 0), U64(0, 0), 0, 0)}
    \cup {DataOf("File", 0, {}, b, U64(0, 10), U64(0, 0), 1, 0) : b \in Wide}
    \cup {DataOf("File", 0, {}, U64(0, 96), f, U64(0, 0), 1, 0) : f \in Wide}
    \cup {DataOf("File", 0, {}, U64(0, 96), U64(0, 10), U64(0, 4096), 0, 0)}
    \cup {DataOf(t, 0, {}, U64(0, 0), U64(0, 0), U64(0, 0), 0, l) :
            <<t, l>> \in {<<"Symlink", 6>>, <<"BlockDev", 0>>, <<"CharDev", 0>>,
                          <<"Fifo", 0>>, <<"Socket", 0>>}}

\* the entries the callers pass; only files and symlinks come with more than
\* one hard link
InodeEntries ==
    {e \in {[common |-> CommonOf(h, x, f), data |-> d] :
              h \in {1, 2}, x \in {NO_XATTR, 0}, f \in BOOLEAN, d \in Datas} :
        e.common.hardlink_count > 1 => e.data.tag \in {"File", "Symlink"}}

\* the target_size of the Symlink body: target_path.len().try_into().unwrap(),
\* the plain length of the target (the targets here are far below 2^32)
target_size(data) == data.target_len

\* inode::Table::add
InodeAdd(entry) ==
    /\ writer = "open"
    /\ count < MaxInodes
    /\ LET result == Position(WriterState)
           extended == needs_ext(entry)
           inode_number == count
           body == BodyWritten(entry.data, extended)
           len == StructSize.Header + BodyWrites(body) * StructSize[body]
                    + Trailer(entry)
           data == Bytes(0, ByteLen(appended), ByteLen(appended) + len, FALSE)
       IN /\ count' = count + 1
          /\ inodes' = Append(inodes,
                [entry |-> entry,
                 inode_type |-> inode_kind(entry.data, extended),
                 inode_number |-> inode_number,
                 body |-> body,
                 after_target |-> IF entry.data.tag = "Symlink"
                                  THEN SymlinkTail(entry.common) ELSE 0,
                 target_size |-> IF entry.data.tag = "Symlink"
                                 THEN target_size(entry.data) ELSE 0,
                 at |-> result,
                 returned |-> ~AddPanics(body)])
          /\ appended' = Extend(appended, data)
          /\ \E st \in WriteRaw(WriterState, data) :
               Becomes([st EXCEPT !.panicked = @ \/ AddPanics(body)], FALSE)
    /\ UNCHANGED <<lateVars, build, compressor, refs, index, item, poolVars, dirVars, idVars,
                   archiveVars, readVars>>

\* inode::Table::finish
InodeFinish ==
    /\ writer = "open"
    /\ \E st \in Flush(WriterState) : Becomes(st, TRUE)
    /\ UNCHANGED <<build, compressor, appended, refs, index, item, poolVars, dirVars,
                   moreVars>>

InitInode ==
    /\ InitPool /\ InitWriter /\ InitCaller /\ InitDirTable /\ InitMore
    /\ build.overflow_checks
    /\ compressor = "none"
    /\ item = [size |-> 0, zero |-> FALSE]

NextInode == (\E entry \in InodeEntries : InodeAdd(entry)) \/ InodeFinish

SpecInode == InitInode /\ [][NextInode]_vars

\* the lengths of the symlink targets the callers pass: "", "a" and "target"
TargetLens == {0, 1, 6}

\* symlink entries only, with an empty target among them
SymlinkEntries ==
    {[common |-> CommonOf(h, x, f),
      data |-> DataOf("Symlink", 0, {}, U64(0, 0), U64(0, 0), U64(0, 0), 0, l)] :
        h \in {1, 2}, x \in {NO_XATTR, 0}, f \in BOOLEAN, l \in TargetLens}

NextSymlink == (\E entry \in SymlinkEntries : InodeAdd(entry)) \/ InodeFinish

SpecSymlink == InitInode /\ [][NextSymlink]_vars


-----------------------------------------------------------------------------
\* The archive writer (src/src/write/mod.rs)

MaxItems == 3

MaxOps == 4

\* the uids and gids the directory builders are given
Owners == {0, 1000}

\* size_of::<repr::inode::Header>()
InodeHeaderBytes == 16

\* repr::inode::Ref as its u64, from a metablock start and an offset in it
InodeRef(block, offset) == block * 65536 + offset

\* repr::inode::Ref::block_idx and start_offset
RefDecoded(ref) == [block_start |-> ref \div 65536, start_offset |-> ref % 65536]

\* an operation on the archive ended: how, whether it wrote to the file, and
\* the ItemRef it returned (-1 when it returns none)
Ended(op, result, wrote, item_ref) ==
    ops' = Append(ops, [op |-> op, result |-> result, wrote |-> wrote,
                        item_ref |-> item_ref,
                        after_error |-> \E k \in 1..Len(ops) :
                                            ops[k].op = "flush" /\ ops[k].result = "Err"])

\* the ItemRefs add_item has returned
Handed == {ops[k].item_ref : k \in {j \in 1..Len(ops) : ops[j].op = "add_item"}}

\* the position of each id in the sorted set, as flush numbers them
RECURSIVE all_ids(_)
all_ids(set) ==
    IF set = {} THEN <<>>
    ELSE LET least == CHOOSE id \in set : \A other \in set : id <= other
         IN <<least>> \o all_ids(set \ {least})

\* the index flush gives an id
IdxOf(id, sorted) == (CHOOSE k \in 1..Len(sorted) : sorted[k] = id) - 1

\* Archive::add_item of a directory item with the given entries
PushItem(uid, gid, entries) ==
    /\ archive = "open"
    /\ Len(ops) < MaxOps
    /\ Len(items) < MaxItems
    /\ uid_gid' = uid_gid \cup {uid, gid}
    /\ items' = Append(items, [uid |-> uid, gid |-> gid, data |-> "Directory",
                               entries |-> entries])
    /\ Ended("add_item", "Ok", FALSE, Len(items))
    /\ UNCHANGED <<root, file, archive>>

\* DirBuilder::finish of a builder without entries, which ends in
\* Archive::add_item
AddItem(uid, gid) ==
    /\ PushItem(uid, gid, <<>>)
    /\ UNCHANGED <<lateVars, build, compressor, threads, writerVars, poolVars, dirVars, idVars,
                   inodeVars, readVars>>

\* Archive::set_root
SetRoot(item_ref) ==
    /\ archive = "open"
    /\ Len(ops) < MaxOps
    /\ IF item_ref >= Len(items)
       THEN \* self.items[item_ref.0] is out of bounds
            /\ archive' = "panicked"
            /\ Ended("set_root", "panic", FALSE, -1)
            /\ UNCHANGED root
       ELSE /\ root' = item_ref
            /\ Ended("set_root", "Ok", FALSE, -1)
            /\ UNCHANGED archive
    /\ UNCHANGED <<items, uid_gid, file>>
    /\ UNCHANGED <<lateVars, build, compressor, threads, writerVars, poolVars, dirVars, idVars,
                   inodeVars, readVars>>

\* the superblock flush builds, and the inode headers it puts in its local
\* inode_table with the offset of each
SuperblockOf(its, id_set) ==
    [inode_count |-> Len(its),
     id_count |-> Cardinality(id_set),
     root_inode_ref |-> InodeRef(0, 0)]

InodeTableOf(its, id_set) ==
    [i \in 1..Len(its) |->
        [inode_number |-> i - 1,
         uid_idx |-> IdxOf(its[i].uid, all_ids(id_set)),
         gid_idx |-> IdxOf(its[i].gid, all_ids(id_set)),
         at |-> InodeHeaderBytes * (i - 1)]]

\* Archive::flush: the items are drained, the superblock goes to offset 0, and
\* what follows the write is unimplemented!()
FlushBody(op, write_ok) ==
    /\ items' = <<>>
    /\ IF write_ok
       THEN /\ file' = Append(file, [pos |-> 0,
                                     superblock |-> SuperblockOf(items, uid_gid),
                                     inode_table |-> InodeTableOf(items, uid_gid),
                                     root |-> root])
            /\ Ended(op, "panic", TRUE, -1)
       ELSE /\ file' = file
            /\ Ended(op, "Err", FALSE, -1)
    /\ UNCHANGED <<root, uid_gid>>
    /\ UNCHANGED <<lateVars, build, compressor, threads, writerVars, poolVars, dirVars, idVars,
                   inodeVars, readVars>>

ArchiveFlush(write_ok) ==
    /\ archive = "open"
    /\ Len(ops) < MaxOps
    /\ FlushBody("flush", write_ok)
    /\ archive' = IF write_ok THEN "panicked" ELSE "open"

\* Drop for Archive, when the owner lets go of it or a panic unwinds past it
ArchiveDrop(write_ok) ==
    /\ archive \in {"open", "panicked"}
    /\ FlushBody("drop", write_ok)
    /\ archive' = "dropped"

InitArchiveWriter ==
    /\ InitPool /\ InitWriter /\ InitCaller /\ InitDirTable /\ InitMore
    /\ build.overflow_checks
    /\ compressor = "none"
    /\ item = [size |-> 0, zero |-> FALSE]

NextArchive ==
    \/ \E uid \in Owners, gid \in Owners : AddItem(uid, gid)
    \/ \E item_ref \in Handed : SetRoot(item_ref)
    \/ \E write_ok \in BOOLEAN : ArchiveFlush(write_ok)
    \/ \E write_ok \in BOOLEAN : ArchiveDrop(write_ok)

SpecArchive == InitArchiveWriter /\ [][NextArchive]_vars

(***************************************************************************)
(* write/mod.rs: the DirBuilder. Its entries are a BTreeMap from name to   *)
(* ItemRef, held here as the sequence of its pairs in the order the map    *)
(* iterates them. A name is a sequence of bytes.                           *)
(***************************************************************************)
\* the names given to add_item: "a", "aa" and "b"
Names == {<<97>>, <<97, 97>>, <<98>>}

\* the calls of add_item that are followed on one builder
MaxNameAdds == 3

\* Ord for BString: a < b, byte by byte, a prefix before what it begins
RECURSIVE BytesLess(_, _)
BytesLess(a, b) ==
    IF b = <<>> THEN FALSE
    ELSE IF a = <<>> THEN TRUE
    ELSE IF a[1] # b[1] THEN a[1] < b[1]
    ELSE BytesLess(Tail(a), Tail(b))

\* a Vec::push in the place of the map's insert
pushed(entries, name, item_ref) == Append(entries, [name |-> name, item_ref |-> item_ref])

\* BTreeMap::insert: the pair takes the place its key has in the order, and
\* the place of the pair that had the key
insert(entries, name, item_ref) ==
    SelectSeq(entries, LAMBDA e : BytesLess(e.name, name))
    \o <<[name |-> name, item_ref |-> item_ref]>>
    \o SelectSeq(entries, LAMBDA e : BytesLess(name, e.name))

\* the rest of the state a step of the builder leaves alone
BuilderFrame ==
    UNCHANGED <<build, compressor, threads, writerVars, poolVars, dirVars, idVars,
                inodeVars, readVars, features, packed, tried, bufVars, dropVars, ingest,
                diffed>>

\* Archive::create_dir: DirBuilder::new, owned by root
CreateDir ==
    /\ archive = "open"
    /\ builder.state = "none"
    /\ builder' = [state |-> "building", uid |-> 0, gid |-> 0, entries |-> <<>>, calls |-> <<>>]
    /\ UNCHANGED archiveVars
    /\ BuilderFrame

\* DirBuilder::add_item(name, item)
DirAddItem(name, item_ref) ==
    /\ builder.state = "building"
    /\ Len(builder.calls) < MaxNameAdds
    /\ builder' = [builder EXCEPT !.entries = insert(@, name, item_ref),
                                  !.calls = Append(@, [name |-> name, item_ref |-> item_ref])]
    /\ UNCHANGED archiveVars
    /\ BuilderFrame

\* DirBuilder::finish: the entries move into the item, the builder is gone
BuilderFinish ==
    /\ builder.state = "building"
    /\ PushItem(builder.uid, builder.gid, builder.entries)
    /\ builder' = [state |-> "none", uid |-> 0, gid |-> 0, entries |-> <<>>, calls |-> <<>>]
    /\ BuilderFrame

NextBuilder ==
    \/ CreateDir
    \/ \E name \in Names, item_ref \in Handed : DirAddItem(name, item_ref)
    \/ BuilderFinish
    \/ \E write_ok \in BOOLEAN : ArchiveFlush(write_ok)

SpecBuilder == InitArchiveWriter /\ [][NextBuilder]_vars

\* one builder and the items it can name: directories without entries are
\* added to the archive, and the builder takes add_item calls for them
NextNames ==
    \/ \E uid \in Owners : AddItem(uid, 0)
    \/ CreateDir
    \/ \E name \in Names, item_ref \in Handed : DirAddItem(name, item_ref)

SpecNames == InitArchiveWriter /\ [][NextNames]_vars


-----------------------------------------------------------------------------
\* The archive reader (src/src/read.rs)

\* the metablocks a file may hold at the place read: every header value, with
\* a body that is a whole codec frame, other bytes, or cut short by the end of
\* the file
BodyKinds == {"frame", "bytes", "short"}

\* the two header bytes as a u16
HeaderValues == 0..65535

\* the bytes of the body of a metablock of the given on-disk size
BodyBytes(kind, size) ==
    IF kind = "frame" /\ size >= PackedSize(<<>>)
    THEN <<Blob(size, Bytes(0, 0, size - PackedSize(<<>>), FALSE))>>
    ELSE Bytes(0, 0, size, FALSE)

\* one read of the file: what for, where from, how many bytes
FileRead(what, pos, len) == [what |-> what, pos |-> pos, len |-> len]

\* read_metablock on a reader at pos: the result, the size returned, the reads
\* of the file it made and whether the codec was run.  codec is {} for None
\* and {kind} for Some.
read_metablock(pos, header, body, codec, dst_len, exact) ==
    LET compressed == HeaderCompressed(header)
        size == HeaderSize(header)
        head == <<FileRead("header", pos, 2)>>
        whole == head \o <<FileRead("body", pos + 2, size)>>
        Outcome(result, n, reads, decompressed) ==
            [result |-> result, size |-> n, reads |-> reads, decompressed |-> decompressed]
    IN
    IF size > SIZE THEN {Outcome("HugeMetablock", 0, head, FALSE)}
    ELSE IF compressed
    THEN IF codec = {} THEN {Outcome("CompressedCompressorOptions", 0, head, FALSE)}
         ELSE IF body = "short" THEN {Outcome("MetablockIo", 0, whole, FALSE)}
         ELSE {IF o.status # "Ok" THEN Outcome("MetablockIo", 0, whole, TRUE)
               ELSE IF exact /\ o.n # dst_len
               THEN Outcome("UnexpectedMetablockSize", 0, whole, TRUE)
               ELSE Outcome("Ok", o.n, whole, TRUE)
               : o \in UNION {CodecDecompress(kind, FreshCodec, BodyBytes(body, size), dst_len)
                              : kind \in codec}}
    ELSE IF exact /\ size # dst_len
    THEN {Outcome("UnexpectedMetablockSize", 0, head, FALSE)}
    ELSE IF body = "short" THEN {Outcome("MetablockIo", 0, whole, FALSE)}
    ELSE {Outcome("Ok", size, whole, FALSE)}

\* one call of read_metablock on a reader at offset 0
ReadMetablock(header, body, codec, exact) ==
    /\ \E o \in read_metablock(0, header, body, codec, SIZE, exact) :
         block_read' = [called |-> TRUE, header |-> header, body |-> body, codec |-> codec,
                        exact |-> exact, result |-> o.result, size |-> o.size,
                        reads |-> o.reads, decompressed |-> o.decompressed]
    /\ UNCHANGED <<lateVars, build, compressor, threads, writerVars, poolVars, dirVars, idVars,
                   inodeVars, archiveVars, opened>>

InitRead ==
    /\ InitPool /\ InitWriter /\ InitCaller /\ InitDirTable /\ InitMore
    /\ build.overflow_checks
    /\ compressor = "none"
    /\ item = [size |-> 0, zero |-> FALSE]

\* one call in a behaviour, on any metablock, with or without a codec
NextRead ==
    /\ ~block_read.called
    /\ \E header \in HeaderValues, body \in BodyKinds, codec \in {{}, {"zstd"}},
          exact \in BOOLEAN : ReadMetablock(header, body, codec, exact)

SpecRead == InitRead /\ [][NextRead]_vars


\* repr::superblock::MAGIC, 0x7371_7368
MAGIC == 1936814952

\* repr::superblock::VERSION_MAJOR, VERSION_MINOR
VERSION_MAJOR == 4

VERSION_MINOR == 0

\* Superblock::SIZE, where the reader stands after the superblock
SuperblockBytes == 96

\* repr::superblock::Flags: the bit of each flag
FlagBits ==
    [UNCOMPRESSED_INODES |-> 1, UNCOMPRESSED_DATA |-> 2, CHECK |-> 4,
     UNCOMPRESSED_FRAGMENTS |-> 8, NO_FRAGMENTS |-> 16, ALWAYS_FRAGMENTS |-> 32,
     DUPLICATES |-> 64, EXPORTABLE |-> 128, UNCOMPRESSED_XATTRS |-> 256,
     NO_XATTRS |-> 512, COMPRESSOR_OPTIONS |-> 1024, UNCOMPRESSED_IDS |-> 2048]

\* the & of two u16
RECURSIVE BitAnd(_, _)
BitAnd(a, b) ==
    IF a = 0 \/ b = 0 THEN 0
    ELSE (a % 2) * (b % 2) + 2 * BitAnd(a \div 2, b \div 2)

\* the complement of a u16
BitNot(a) == U16_MAX - a

RECURSIVE SumOf(_)
SumOf(set) ==
    IF set = {} THEN 0
    ELSE LET x == CHOOSE y \in set : TRUE IN x + SumOf(set \ {x})

\* Flags::all(): the union of the defined flags
FlagsAll == SumOf({FlagBits[f] : f \in DOMAIN FlagBits})

\* the flags the check for unknown bits lets through: !(flags & all()).is_empty()
\* is the error
FlagsRejected(flags) == BitAnd(flags, FlagsAll) # 0

\* a check that rejects the bits outside Flags::all()
FlagsRejectedIfUnknown(flags) == BitAnd(flags, BitNot(FlagsAll)) # 0

\* Flags::contains
FlagsContains(flags, bit) == BitAnd(flags, bit) = bit

\* 1 << block_log on u32, held as i32: {} when the shift panics
Shl1(block_log) ==
    IF block_log >= 32 /\ build.overflow_checks THEN {}
    ELSE LET by == block_log % 32 IN {IF by = 31 THEN MinI32 ELSE 2 ^ by}

\* compression::Kind::from_id
from_id(id) ==
    CASE id = 1 -> "ZLib" [] id = 2 -> "Lzma" [] id = 3 -> "Lzo" [] id = 4 -> "Xz"
      [] id = 5 -> "Lz4" [] id = 6 -> "Zstd" [] OTHER -> "Unknown"

\* the codec that stands behind each cargo feature
KindOfFeature == [gzip |-> "ZLib", zstd |-> "Zstd"]

\* a supported() that counts every known kind as built in
supportedAlways(kind) == kind # "Unknown"

\* compression::Kind::supported: cfg!(feature = ...) of the kind
supported(kind) == \E f \in features : KindOfFeature[f] = kind

\* validate_superblock: an error, "panic", or Ok
validate_superblock(sb) ==
    IF sb.magic # MAGIC THEN "BadMagic"
    ELSE IF sb.version_major # VERSION_MAJOR \/ sb.version_minor # VERSION_MINOR
    THEN "BadVersion"
    ELSE IF Shl1(sb.block_log) = {} THEN "panic"
    ELSE IF sb.block_size \notin Shl1(sb.block_log) THEN "CorruptBlockSizes"
    ELSE IF from_id(sb.compression_id) = "Unknown" THEN "UnknownCompression"
    ELSE IF ~supported(from_id(sb.compression_id)) THEN "DisabledCompression"
    ELSE "Ok"

\* metablock_indexes and the collect() of with_logger: the reads of the index
\* of the id table, {} when assert!(end > start) fails
IdIndexReads(sb) ==
    IF ~(sb.xattr_id_table_start > sb.id_table_start) THEN {}
    ELSE LET ids_size == 4 * sb.id_count
             block_count == (ids_size + (SIZE - 1)) \div SIZE
         IN {[k \in 1..block_count |->
                FileRead("id_index", sb.id_table_start + 8 * (k - 1), 8)]}

\* Archive::with_logger on a file that begins with sb and holds block at 96:
\* the result, the reads of the file, and the codec it was opened with
with_logger(sb, block) ==
    LET first == <<FileRead("superblock", 0, SuperblockBytes)>>
        Outcome(result, reads, codec) == [result |-> result, reads |-> reads, codec |-> codec]
        Indexed(reads, codec) ==
            IF IdIndexReads(sb) = {} THEN {Outcome("panic", reads, codec)}
            ELSE {Outcome("Ok", reads \o more, codec) : more \in IdIndexReads(sb)}
    IN
    IF validate_superblock(sb) # "Ok" THEN {Outcome(validate_superblock(sb), first, "none")}
    ELSE IF FlagsRejected(sb.flags) THEN {Outcome("UnsupportedOption", first, "none")}
    ELSE IF FlagsContains(sb.flags, FlagBits.COMPRESSOR_OPTIONS)
    THEN UNION {IF o.result # "Ok" THEN {Outcome(o.result, first \o o.reads, "none")}
                ELSE IF ~block.options_ok THEN {Outcome("Io", first \o o.reads, "none")}
                ELSE Indexed(first \o o.reads, "configured")
                : o \in read_metablock(SuperblockBytes, block.header, block.body, {},
                                       SIZE, FALSE)}
    ELSE Indexed(first, "default")

\* the superblocks of the files opened: a sound one with every flags word,
\* and every mix of sound and unsound fields with a few flags words
BaseSuperblock ==
    [magic |-> MAGIC, version_major |-> 4, version_minor |-> 0,
     block_size |-> 131072, block_log |-> 17, compression_id |-> 1, flags |-> 0,
     id_count |-> 1, id_table_start |-> 200, xattr_id_table_start |-> 300]

BlockSizes == {0, 1, 32, 4095, 4096, 131072, 1048576, 2097152, MinI32, -1}

BlockLogs == {0, 5, 12, 17, 20, 21, 31, 32, 44, 65535}

Superblocks ==
    {[BaseSuperblock EXCEPT !.flags = f] : f \in 0..U16_MAX}
    \cup {[BaseSuperblock EXCEPT !.magic = m, !.version_minor = v, !.block_size = bs,
                                 !.block_log = bl, !.compression_id = c, !.flags = f,
                                 !.xattr_id_table_start = x] :
            m \in {MAGIC, 0}, v \in {0, 1}, bs \in BlockSizes, bl \in BlockLogs,
            c \in {0, 1, 2, 6}, f \in {0, FlagBits.COMPRESSOR_OPTIONS, 4096},
            x \in {100, 300}}

\* what the files hold at offset 96
OptionBlocks ==
    {[header |-> 8, body |-> "bytes", options_ok |-> TRUE],
     [header |-> 8, body |-> "bytes", options_ok |-> FALSE],
     [header |-> 8, body |-> "short", options_ok |-> TRUE],
     [header |-> COMPRESSED_FLAG + 8, body |-> "frame", options_ok |-> TRUE],
     [header |-> SIZE + 1, body |-> "bytes", options_ok |-> TRUE]}

\* one call of Archive::with_logger
Open(sb, block) ==
    /\ \E o \in with_logger(sb, block) :
         opened' = [called |-> TRUE, superblock |-> sb, block |-> block,
                    result |-> o.result, reads |-> o.reads, codec |-> o.codec]
    /\ UNCHANGED <<lateVars, build, compressor, threads, writerVars, poolVars, dirVars, idVars,
                   inodeVars, archiveVars, block_read>>

\* the reader is built with or without overflow checks
InitOpen ==
    /\ InitPool /\ InitWriter /\ InitCaller /\ InitDirTable /\ InitMore
    /\ compressor = "none"
    /\ item = [size |-> 0, zero |-> FALSE]

\* one file opened in a behaviour
NextOpen ==
    /\ ~opened.called
    /\ \E sb \in Superblocks, block \in OptionBlocks : Open(sb, block)

SpecOpen == InitOpen /\ [][NextOpen]_vars

\* the superblocks opened by the builds that differ in their codecs: every
\* compression id around 1..6, on sound and unsound earlier fields
KindSuperblocks ==
    {[BaseSuperblock EXCEPT !.magic = m, !.block_size = bs, !.compression_id = c,
                            !.flags = f] :
       m \in {MAGIC, 0}, bs \in {131072, 4096}, c \in 0..7 \cup {U16_MAX},
       f \in {0, FlagBits.COMPRESSOR_OPTIONS}}

\* the crate is built with any of its codec features switched on or off
InitKind ==
    /\ InitPool /\ InitWriter /\ InitCaller /\ InitDirTable /\ InitTables
    /\ features \in SUBSET AllFeatures
    /\ compressor = "none"
    /\ item = [size |-> 0, zero |-> FALSE]

\* one file opened in a behaviour
NextKind ==
    /\ ~opened.called
    /\ \E sb \in KindSuperblocks, block \in OptionBlocks : Open(sb, block)

SpecKind == InitKind /\ [][NextKind]_vars

(***************************************************************************)
(* packed_serialize: PackedStruct for the integers and for the structs     *)
(* that derive it. A type is an integer of some width or a struct of       *)
(* fields in declaration order; a value is an integer or one value per     *)
(* field.                                                                  *)
(***************************************************************************)
\* packed_impl!(ty, size): an integer type of `bytes` bytes
IntType(bytes, signed) == [int |-> TRUE, bytes |-> bytes, signed |-> signed, fields |-> <<>>]

\* a struct that derives PackedStruct, its fields in declaration order
StructType(fields) == [int |-> FALSE, bytes |-> 0, signed |-> FALSE, fields |-> fields]

IntValue(n) == [n |-> n, fields |-> <<>>]

StructValue(fields) == [n |-> 0, fields |-> fields]

RECURSIVE Size(_)
RECURSIVE calc_size_type(_, _)
\* calc_size_type on the first k of the types: the Sum of their Size
calc_size_type(types, k) ==
    IF k = 0 THEN 0 ELSE calc_size_type(types, k - 1) + Size(types[k])

\* PackedStruct::Size, PackedStruct::size()
Size(ty) == IF ty.int THEN ty.bytes ELSE calc_size_type(ty.fields, Len(ty.fields))

\* an encoding that puts the most significant byte first
to_be(n, bytes) == [k \in 1..bytes |-> (n \div (256 ^ (bytes - k))) % 256]

\* to_le and write_unaligned: the bytes of an integer, least significant first
to_le(n, bytes) == [k \in 1..bytes |-> (n \div (256 ^ (k - 1))) % 256]

RECURSIVE Unsigned(_, _)
\* the number the first k bytes hold, least significant first
Unsigned(bytes, k) == IF k = 0 THEN 0 ELSE Unsigned(bytes, k - 1) + bytes[k] * 256 ^ (k - 1)

\* read_unaligned and from_le: the integer of bytes, two's complement when signed
from_le(bytes, signed) ==
    LET w == Len(bytes)
        top == IF signed /\ bytes[w] >= 128 THEN bytes[w] - 256 ELSE bytes[w]
    IN Unsigned(bytes, w - 1) + top * 256 ^ (w - 1)

\* &array[offset] cast to the array of a field: {} when the index is out of
\* bounds (a panic), else the `size` bytes from `offset` on
SubArray(array, offset, size) ==
    IF offset >= Len(array) THEN {} ELSE {SubSeq(array, offset + 1, offset + size)}

\* an array with the sub-array at `offset` replaced
Spliced(array, offset, sub) ==
    [k \in 1..Len(array) |->
       IF k > offset /\ k <= offset + Len(sub) THEN sub[k - offset] ELSE array[k]]

RECURSIVE write_packed_arr(_, _, _)
RECURSIVE WriteFields(_, _, _, _)
\* the write_from_field of the first k fields, in order: {} on a panic
WriteFields(ty, value, array, k) ==
    IF k = 0 THEN {array}
    ELSE UNION {LET offset == calc_size_type(ty.fields, k - 1) IN
                UNION {{Spliced(before, offset, after) :
                          after \in write_packed_arr(ty.fields[k], value.fields[k], sub)}
                       : sub \in SubArray(before, offset, Size(ty.fields[k]))}
                : before \in WriteFields(ty, value, array, k - 1)}

\* PackedStruct::write_packed_arr: the array afterwards, {} on a panic
write_packed_arr(ty, value, array) ==
    IF ty.int THEN {Spliced(array, 0, to_le(value.n, ty.bytes))}
    ELSE WriteFields(ty, value, array, Len(ty.fields))

\* PackedStruct::to_packed on an array that starts as uninitialized memory,
\* every byte `fill`
to_packed(ty, value, fill) == write_packed_arr(ty, value, [k \in 1..Size(ty) |-> fill])

RECURSIVE from_packed(_, _)
RECURSIVE SetFields(_, _, _)
\* the set_field of the first k fields: {} on a panic
SetFields(ty, array, k) ==
    IF k = 0 THEN {<<>>}
    ELSE UNION {UNION {{Append(before, v) : v \in from_packed(ty.fields[k], sub)}
                       : sub \in SubArray(array, calc_size_type(ty.fields, k - 1),
                                          Size(ty.fields[k]))}
                : before \in SetFields(ty, array, k - 1)}

\* PackedStruct::from_packed: the value, {} on a panic
from_packed(ty, array) ==
    IF ty.int THEN {IntValue(from_le(array, ty.signed))}
    ELSE {StructValue(fs) : fs \in SetFields(ty, array, Len(ty.fields))}

\* the packed types written: the integers, the structs of the crate's tests
\* with narrower integers, and structs that nest a struct without fields
U8 == IntType(1, FALSE)

I8 == IntType(1, TRUE)

U16 == IntType(2, FALSE)

I16 == IntType(2, TRUE)

I32 == IntType(4, TRUE)

Inner == StructType(<<I32>>)

Outer == StructType(<<Inner, U8, Inner>>)

Mixed == StructType(<<U16, I8, I16>>)

Deep == StructType(<<Mixed, StructType(<<U8, Inner>>), U16>>)

Unit == StructType(<<>>)

UnitFirst == StructType(<<Unit, U8>>)

UnitLast == StructType(<<U8, Unit>>)

PackedTypes == {U8, I8, U16, I16, I32, Inner, Outer, Mixed, Deep, Unit, UnitFirst, UnitLast}

\* the integers of a type that are written: its ends, and one with distinct bytes
IntsOf(ty) ==
    LET half == IF ty.bytes = 4 THEN MaxI32 ELSE 2 ^ (8 * ty.bytes - 1) - 1
        mixed == IF ty.bytes = 4 THEN 16909060 ELSE IF ty.bytes = 2 THEN 258 ELSE 18
    IN IF ty.signed THEN {-half - 1, -1, 0, mixed, half}
       ELSE {0, mixed, half + 1, 2 * half + 1}

RECURSIVE Values(_)
RECURSIVE Records(_, _)
\* one value for each of the first k fields
Records(fields, k) ==
    IF k = 0 THEN {<<>>}
    ELSE {Append(r, v) : r \in Records(fields, k - 1), v \in Values(fields[k])}

\* the values of a type
Values(ty) ==
    IF ty.int THEN {IntValue(n) : n \in IntsOf(ty)}
    ELSE {StructValue(r) : r \in Records(ty.fields, Len(ty.fields))}

\* what uninitialized memory holds
FillBytes == {0, 170}

\* value.to_packed(), and T::from_packed of the array it returned
Pack(ty, value, fill) ==
    /\ \E bytes \in IF to_packed(ty, value, fill) = {} THEN {<<>>}
                     ELSE to_packed(ty, value, fill) :
         packed' = [called |-> TRUE, ty |-> ty, value |-> value, fill |-> fill,
                    result |-> IF to_packed(ty, value, fill) = {} THEN "panic" ELSE "Ok",
                    bytes |-> bytes,
                    back |-> IF to_packed(ty, value, fill) = {} THEN {}
                             ELSE from_packed(ty, bytes)]
    /\ UNCHANGED <<build, compressor, threads, writerVars, poolVars, dirVars, idVars,
                   inodeVars, archiveVars, readVars, features, tried, bufVars, tailVars>>

\* io::Read::read on a reader that holds `data` and answers its calls as its
\* script says (an error, or at most `max` bytes), then with all it holds:
\* the error or the bytes delivered, and the reader afterwards
reader_read(rd, len) ==
    LET d == IF rd.script = <<>> THEN [err |-> "none", max |-> len] ELSE Head(rd.script)
        rest == IF rd.script = <<>> THEN <<>> ELSE Tail(rd.script)
        n == Min(Min(d.max, len), Len(rd.data))
    IN IF d.err # "none"
       THEN [err |-> d.err, got |-> <<>>, rd |-> [rd EXCEPT !.script = rest]]
       ELSE [err |-> "none", got |-> SubSeq(rd.data, 1, n),
             rd |-> [data |-> SubSeq(rd.data, n + 1, Len(rd.data)), script |-> rest]]

\* the arm that lets an interrupted read through as an error
NeverInterrupted(err) == FALSE

\* e.kind() == io::ErrorKind::Interrupted
IsInterrupted(err) == err = "Interrupted"

\* how a try_read ended: the result, the record of Some, and the reader
TryEnded(result, value, rd, reads) ==
    [result |-> result, value |-> value, left |-> rd.data, reads |-> reads]

RECURSIVE read_exact(_, _, _, _, _)
\* io::Read::read_exact on buf[filled..], then from_packed of the buffer
read_exact(ty, rd, buf, filled, reads) ==
    IF filled = Len(buf)
    THEN IF from_packed(ty, buf) = {} THEN TryEnded("panic", {}, rd, reads)
         ELSE TryEnded("Some", from_packed(ty, buf), rd, reads)
    ELSE LET r == reader_read(rd, Len(buf) - filled) IN
         IF r.err = "none"
         THEN IF Len(r.got) = 0 THEN TryEnded("UnexpectedEof", {}, r.rd, reads + 1)
              ELSE read_exact(ty, r.rd, Spliced(buf, filled, r.got),
                              filled + Len(r.got), reads + 1)
         ELSE IF r.err = "Interrupted" THEN read_exact(ty, r.rd, buf, filled, reads + 1)
         ELSE TryEnded(r.err, {}, r.rd, reads + 1)

RECURSIVE try_read(_, _, _, _)
\* packed_serialize::try_read: the loop up to the first read that is not
\* interrupted, then read_exact on the rest of the buffer
try_read(ty, rd, buf, reads) ==
    LET r == reader_read(rd, Len(buf)) IN
    IF r.err = "none"
    THEN IF Len(r.got) = 0 THEN TryEnded("None", {}, r.rd, reads + 1)
         ELSE read_exact(ty, r.rd, Spliced(buf, 0, r.got), Len(r.got), reads + 1)
    ELSE IF IsInterrupted(r.err) THEN try_read(ty, r.rd, buf, reads + 1)
    ELSE TryEnded(r.err, {}, r.rd, reads + 1)

\* the types read, and how a reader answers one call
TryTypes == {U16, StructType(<<U8, I16>>)}

Answers ==
    {[err |-> "Interrupted", max |-> 0], [err |-> "Other", max |-> 0],
     [err |-> "none", max |-> 1], [err |-> "none", max |-> 2]}

\* the longest script of a reader
MaxScript == 3

Scripts == UNION {[1..n -> Answers] : n \in 0..MaxScript}

\* the first n bytes of a record followed by one byte of the next
Stream(ty, value) == SubSeq(CHOOSE b \in to_packed(ty, value, 0) : TRUE, 1, Size(ty)) \o <<7>>

\* one call of try_read::<T, _>(reader)
TryRead(ty, value, n, script, fill) ==
    /\ LET data == SubSeq(Stream(ty, value), 1, n)
           o == try_read(ty, [data |-> data, script |-> script],
                         [k \in 1..Size(ty) |-> fill], 0)
       IN tried' = [called |-> TRUE, ty |-> ty, data |-> data, script |-> script,
                    result |-> o.result, value |-> o.value, left |-> o.left,
                    reads |-> o.reads]
    /\ UNCHANGED <<build, compressor, threads, writerVars, poolVars, dirVars, idVars,
                   inodeVars, archiveVars, readVars, features, packed, bufVars, tailVars>>

\* the crate as it is built for the archive, with nothing packed yet
InitPack ==
    /\ InitPool /\ InitWriter /\ InitCaller /\ InitDirTable /\ InitMore
    /\ compressor = "none"
    /\ item = [size |-> 0, zero |-> FALSE]

\* one record written and read back, or one record read from a reader
NextPack ==
    /\ ~packed.called /\ ~tried.called
    /\ \/ \E ty \in PackedTypes : \E value \in Values(ty), fill \in FillBytes :
            Pack(ty, value, fill)
       \/ \E ty \in TryTypes : \E value \in Values(ty), n \in 0..(Size(ty) + 1) :
            \E script \in Scripts, fill \in FillBytes : TryRead(ty, value, n, script, fill)

SpecPack == InitPack /\ [][NextPack]_vars

(***************************************************************************)
(* pool.rs: the pool of blocks and its Handles, and the buffers that       *)
(* write/pool.rs pulls from the pools of the object_pool crate. Each call  *)
(* holds the pool's Mutex for its whole body and is one step.              *)
(***************************************************************************)
\* the Handles in use at most, over all threads
MaxHandles == 3

\* the lengths a buffer in use passes through
BufLens == {0, 1}

HandleCount == Len(handles[1]) + Len(handles[2])

\* a detached() that only hands out what the pool holds
detached_from_pool(its) ==
    IF its = <<>> THEN {} ELSE {[item |-> its[Len(its)], items |-> SubSeq(its, 1, Len(its) - 1)]}

\* Pool::detached: items.lock().pop().unwrap_or_else(T::new)
detached(its) ==
    IF its = <<>> THEN {[item |-> 0, items |-> its]}
    ELSE {[item |-> its[Len(its)], items |-> SubSeq(its, 1, Len(its) - 1)]}

\* a return_item that keeps the item as it is
return_item_unreset(its, len) == IF Len(its) < pool_capacity THEN Append(its, len) ELSE its

\* Pool::return_item: the items afterwards
return_item(its, len) == IF Len(its) < pool_capacity THEN Append(its, 0) ELSE its

\* a thread calls pool::block() or Pool::get
CallGet(t) ==
    /\ t \notin getting
    /\ HandleCount + Cardinality(getting) < MaxHandles
    /\ getting' = getting \cup {t}
    /\ UNCHANGED <<pool_items, pool_capacity, handles, last_get, last_return>>
    /\ UNCHANGED <<build, compressor, threads, writerVars, poolVars, dirVars, idVars,
                   inodeVars, archiveVars, readVars, features, packed, tried, tailVars>>

\* Pool::get: the Handle of what detached() gave
PoolGet(t) ==
    /\ t \in getting
    /\ \E o \in detached(pool_items) :
         /\ pool_items' = o.items
         /\ handles' = [handles EXCEPT ![t] = Append(@, o.item)]
         /\ last_get' = [called |-> TRUE, pool |-> "blocks", idle |-> Len(pool_items),
                         in_use |-> HandleCount, len |-> o.item]
    /\ getting' = getting \ {t}
    /\ UNCHANGED <<pool_capacity, last_return>>
    /\ UNCHANGED <<build, compressor, threads, writerVars, poolVars, dirVars, idVars,
                   inodeVars, archiveVars, readVars, features, packed, tried, tailVars>>

\* a sequence without its element i
Without(seq, i) == SubSeq(seq, 1, i - 1) \o SubSeq(seq, i + 1, Len(seq))

\* Pool::attach, pool::attach_block: a Handle of a buffer that came from elsewhere
PoolAttach(t, len) ==
    /\ HandleCount + Cardinality(getting) < MaxHandles
    /\ handles' = [handles EXCEPT ![t] = Append(@, len)]
    /\ UNCHANGED <<pool_items, pool_capacity, getting, last_get, last_return>>
    /\ UNCHANGED <<build, compressor, threads, writerVars, poolVars, dirVars, idVars,
                   inodeVars, archiveVars, readVars, features, packed, tried, tailVars>>

\* DerefMut of a Handle: its holder changes the length of the buffer
HandleWrite(t, i, len) ==
    /\ i \in DOMAIN handles[t]
    /\ handles[t][i] # len
    /\ handles' = [handles EXCEPT ![t][i] = len]
    /\ UNCHANGED <<pool_items, pool_capacity, getting, last_get, last_return>>
    /\ UNCHANGED <<build, compressor, threads, writerVars, poolVars, dirVars, idVars,
                   inodeVars, archiveVars, readVars, features, packed, tried, tailVars>>

\* Handle::detach: the buffer leaves with its holder, nothing returns
HandleDetach(t, i) ==
    /\ i \in DOMAIN handles[t]
    /\ handles' = [handles EXCEPT ![t] = Without(@, i)]
    /\ UNCHANGED <<pool_items, pool_capacity, getting, last_get, last_return>>
    /\ UNCHANGED <<build, compressor, threads, writerVars, poolVars, dirVars, idVars,
                   inodeVars, archiveVars, readVars, features, packed, tried, tailVars>>

\* Drop for Handle: return_item of its buffer
HandleDrop(t, i) ==
    /\ i \in DOMAIN handles[t]
    /\ pool_items' = return_item(pool_items, handles[t][i])
    /\ handles' = [handles EXCEPT ![t] = Without(@, i)]
    /\ last_return' = [called |-> TRUE, idle |-> Len(pool_items), len |-> handles[t][i],
                       stored |-> Len(return_item(pool_items, handles[t][i])) > Len(pool_items)]
    /\ UNCHANGED <<pool_capacity, getting, last_get>>
    /\ UNCHANGED <<build, compressor, threads, writerVars, poolVars, dirVars, idVars,
                   inodeVars, archiveVars, readVars, features, packed, tried, tailVars>>

\* Vec::clear: the length afterwards
clear(len) == 0

\* write::pool::metablock and datablock: pull from the pool of that name,
\* which hands out a buffer it held (of any length) or a new one, then clear()
PullCleared(pool, held) ==
    /\ last_get' = [called |-> TRUE, pool |-> pool, idle |-> 0, in_use |-> HandleCount,
                    len |-> clear(held)]
    /\ UNCHANGED <<pool_items, pool_capacity, handles, getting, last_return>>
    /\ UNCHANGED <<build, compressor, threads, writerVars, poolVars, dirVars, idVars,
                   inodeVars, archiveVars, readVars, features, packed, tried, tailVars>>

\* the archive's codec and features, and the pool of blocks as blocks() makes it
InitBuf ==
    /\ InitPool /\ InitWriter /\ InitCaller /\ InitDirTable /\ InitRest
    /\ features = AllFeatures
    /\ \E cpus \in Cpus : InitBlocks(cpus)
    /\ compressor = "none"
    /\ item = [size |-> 0, zero |-> FALSE]

NextBuf ==
    \/ \E t \in BufThreads : CallGet(t) \/ PoolGet(t)
    \/ \E t \in BufThreads, len \in BufLens : PoolAttach(t, len)
    \/ \E t \in BufThreads, i \in 1..MaxHandles, len \in BufLens : HandleWrite(t, i, len)
    \/ \E t \in BufThreads, i \in 1..MaxHandles : HandleDetach(t, i) \/ HandleDrop(t, i)
    \/ \E pool \in {"metablock", "datablock"}, held \in BufLens : PullCleared(pool, held)

SpecBuf == InitBuf /\ [][NextBuf]_vars

(***************************************************************************)
(* write/datablocks.rs: handle_file. A file is a sequence of bytes: "d" a  *)
(* byte of data, "z" a zero byte, "h" a zero byte inside a hole of the     *)
(* file. The block size is BlockUnits bytes.                               *)
(***************************************************************************)
BlockUnits == 2

\* the longest file, in bytes, and the turns of the loop that are followed
MaxFile == 4

MaxTurns == 3

Files == UNION {[1..n -> {"d", "z", "h"}] : n \in 0..MaxFile}

\* the bytes of a hole that begin at pos
RECURSIVE HoleAt(_, _)
HoleAt(f, pos) == IF pos < Len(f) /\ f[pos + 1] = "h" THEN 1 + HoleAt(f, pos + 1) ELSE 0

\* ReadHoles::skip_hole on a stream that can find holes: the bytes skipped
skip_hole(f, pos) == HoleAt(f, pos)

\* what a read returns for the bytes of the file: a hole reads as zeros
AsRead(f, from, n) == [k \in 1..n |-> IF f[from + k] = "d" THEN "d" ELSE "z"]

\* datablock::Size::ZERO
ZERO == 0

\* handle_file is called: its locals before the loop
HandleFile(f, can_skip, with_compressor) ==
    /\ ingest.state = "none"
    /\ ingest' = [state |-> "looping", file |-> f, can_skip |-> can_skip,
                  with_compressor |-> with_compressor, pos |-> 0, sizes |-> <<>>,
                  do_skip |-> TRUE, handed |-> <<>>, turns |-> 0,
                  ended |-> FALSE, late |-> FALSE]
    /\ UNCHANGED <<build, compressor, threads, writerVars, poolVars, dirVars, idVars,
                   inodeVars, archiveVars, readVars, features, packed, tried, bufVars,
                   dropVars, lastVars>>

\* handle_file, one turn of its loop: the hole skipped, the block read, the
\* block handed to the compressor; nothing leaves the loop but an error.
\* `ended` notes that read_to_end came back short of to_fill, which is how the
\* stream shows its end, and `late` that a turn was begun after that.
HandleFileTurn ==
    /\ ingest.state = "looping"
    /\ ingest.turns < MaxTurns
    /\ LET f == ingest.file
           skipping == ingest.do_skip /\ ingest.can_skip
           hole_size == IF skipping THEN skip_hole(f, ingest.pos) ELSE 0
           empty_blocks == hole_size \div BlockUnits
           remaining == hole_size % BlockUnits
           pos == ingest.pos + hole_size
           to_fill == BlockUnits - remaining
           bytes_read == Min(to_fill, Len(f) - pos)
           block == [k \in 1..remaining |-> "z"] \o AsRead(f, pos, bytes_read)
       IN ingest' = [ingest EXCEPT
                       !.do_skip = skipping,
                       !.sizes = @ \o [k \in 1..empty_blocks |-> ZERO],
                       !.pos = pos + bytes_read,
                       !.handed = IF ingest.with_compressor THEN Append(@, block) ELSE @,
                       !.turns = @ + 1,
                       !.ended = @ \/ bytes_read < to_fill,
                       !.late = @ \/ ingest.ended]
    /\ UNCHANGED <<build, compressor, threads, writerVars, poolVars, dirVars, idVars,
                   inodeVars, archiveVars, readVars, features, packed, tried, bufVars,
                   dropVars, lastVars>>

InitFile ==
    /\ InitPool /\ InitWriter /\ InitCaller /\ InitDirTable /\ InitMore
    /\ compressor = "none"
    /\ item = [size |-> 0, zero |-> FALSE]

NextFile ==
    \/ \E f \in Files, can_skip \in BOOLEAN, with_compressor \in BOOLEAN :
         HandleFile(f, can_skip, with_compressor)
    \/ HandleFileTurn

SpecFile == InitFile /\ [][NextFile]_vars

(***************************************************************************)
(* write/dir.rs: inode_diff on its own, over header references and inode   *)
(* numbers around the ends of u32, of i32 and of the i16 window.           *)
(***************************************************************************)
\* a + d in u32 (wrapping), on values held as i32
WrapAdd(a, d) ==
    IF d > 0 /\ a > MaxI32 - d THEN MinI32 + ((d - 1) - (MaxI32 - a))
    ELSE IF d < 0 /\ a < MinI32 - d THEN MaxI32 + ((a - MinI32) + d + 1)
    ELSE a + d

\* header references from MIN_INODE_NUM_REF to MAX_INODE_NUM_REF: both ends,
\* their neighbours, and the values around 2^31
RefNums ==
    {MIN_INODE_NUM_REF, MIN_INODE_NUM_REF + 1, 65535, MaxI32 - 1, MaxI32, MinI32,
     MinI32 + 1, MAX_INODE_NUM_REF - 1, MAX_INODE_NUM_REF}

\* the distances of an inode number from the reference that are tried
Distances == {-32769, -32768, -1, 0, 1, 32767, 32768}

\* inode numbers: 0, u32::MAX, the two sides of 2^31, and those near ref_num
InodeNums(ref_num) == {0, -1, MaxI32, MinI32} \cup {WrapAdd(ref_num, d) : d \in Distances}

\* one call of inode_diff(ref_num, i), and the call add_entry makes for the
\* entry that starts a header, whose reference is i clamped
Diff(ref_num, i) ==
    /\ ~diffed.called
    /\ diffed' = [called |-> TRUE, ref_num |-> ref_num, i |-> i,
                  out |-> inode_diff(ref_num, i),
                  first |-> inode_diff(Clamp(i, MIN_INODE_NUM_REF, MAX_INODE_NUM_REF), i)]
    /\ UNCHANGED <<build, compressor, threads, writerVars, poolVars, dirVars, idVars,
                   inodeVars, archiveVars, readVars, features, packed, tried, bufVars,
                   dropVars, ingest, builder>>

InitDiff ==
    /\ InitPool /\ InitWriter /\ InitCaller /\ InitDirTable /\ InitMore
    /\ compressor = "none"
    /\ item = [size |-> 0, zero |-> FALSE]

NextDiff == ~diffed.called /\ \E ref_num \in RefNums : \E i \in InodeNums(ref_num) : Diff(ref_num, i)

SpecDiff == InitDiff /\ [][NextDiff]_vars


-----------------------------------------------------------------------------
\* Reading the finished stream back (src/repr/src/metablock.rs, the reader's rule)

CorruptInput == <<Run(-4, 0, 0, FALSE)>>

\* the codec's decompress of a metablock body: only a whole frame decodes
Decompress(data) ==
    IF Len(data) = 1 /\ data[1].id = -2 /\ data[1].lo = 0
       /\ data[1].hi = PackedSize(data[1].of)
    THEN data[1].of
    ELSE CorruptInput

\* the uncompressed body of one framed metablock
Body(f) == IF HeaderCompressed(f.header) THEN Decompress(f.data) ELSE f.data

RECURSIVE Bodies(_)
Bodies(out) == IF out = <<>> THEN <<>> ELSE Extend(Body(out[1]), Bodies(Tail(out)))

\* the data is bytes that were appended, as they were appended
IsRaw(data) == \A i \in DOMAIN data : data[i].id >= 0

\* index of appended byte `at` within the byte string b, -1 when it is not there
RECURSIVE IndexOf(_, _)
IndexOf(b, at) ==
    IF b = <<>> THEN -1
    ELSE IF b[1].id = 0 /\ b[1].lo <= at /\ at < b[1].hi THEN at - b[1].lo
    ELSE LET rest == IndexOf(Tail(b), at) IN
         IF rest < 0 THEN -1 ELSE (b[1].hi - b[1].lo) + rest

\* the metablocks of the output whose body holds appended byte `at`
Holders(at) == {i \in DOMAIN output : IndexOf(Body(output[i]), at) >= 0}

\* byte offset of the header of metablock i within the output
HeaderOffset(i) == OutputLen(SubSeq(output, 1, i - 1))

-----------------------------------------------------------------------------
\* Claims on the metablock writer

\* C1: after any sequence of write/write_raw calls and finish(), with or
\* without a codec, the returned bytes are framed metablocks (header = size on
\* disk, bit 0x8000 exactly when the body is compressed), each of at most 8192
\* bytes on disk and uncompressed, whose bodies concatenate to the appended
\* bytes; finish() does return.
C1_FramedStream ==
    /\ writer # "panicked"
    /\ writer = "finished" =>
        /\ \A i \in DOMAIN output :
            /\ HeaderSize(output[i].header) = ByteLen(output[i].data)
            /\ HeaderSize(output[i].header) <= SIZE
            /\ HeaderCompressed(output[i].header) <=> ~IsRaw(output[i].data)
            /\ ByteLen(Body(output[i])) <= SIZE
        /\ Bodies(output) = appended

\* C2: the reference position() gave before an append of at least one byte
\* names, in the finished output, the metablock whose body holds the first
\* appended byte (block_start is the offset of its header) and the index of
\* that byte in the body.
C2_RefLocatesByte ==
    writer = "finished" =>
        \A k \in DOMAIN refs :
            refs[k].len > 0 =>
                \E i \in Holders(refs[k].at) :
                    /\ refs[k].pos.block_start = HeaderOffset(i)
                    /\ refs[k].pos.start_offset = IndexOf(Body(output[i]), refs[k].at)

\* C3: position() never reports an offset of 8192 or more.
C3_OffsetBelowSize == Position(WriterState).start_offset < SIZE

-----------------------------------------------------------------------------
\* Claims on the two-level table

\* records appended to the table
ItemCount == ByteLen(appended) \div item.size

\* records per metablock
PerBlock == SIZE \div item.size

\* C7: after n >= 1 records of size s and finish(), the index has
\* ceil(n*s / 8192) entries, entry k is the offset of the header of the k-th
\* metablock in the data bytes, and record m lies in the metablock of entry
\* m div (8192/s) at record position m mod (8192/s).
C7_IndexPerMetablock ==
    (writer = "finished" /\ item.size > 0 /\ ItemCount >= 1) =>
        /\ Len(index) = (ItemCount * item.size + SIZE - 1) \div SIZE
        /\ \A k \in DOMAIN index : k \in DOMAIN output /\ index[k] = HeaderOffset(k)
        /\ \A m \in 0..(ItemCount - 1) :
            LET k == (m \div PerBlock) + 1 IN
            /\ k \in DOMAIN output
            /\ IndexOf(Body(output[k]), m * item.size) = (m % PerBlock) * item.size

-----------------------------------------------------------------------------
\* Claims on the parallel compressor

CompressRequests == {r \in DOMAIN requests : requests[r].request_type = "Compress"}

\* C4: every compress request a worker handles gets a reply no longer than
\* its input: the input itself with compressed = false when the codec's output
\* does not fit, codec output with compressed = true otherwise; no input makes
\* the worker fail.
C4_ReplyNoLongerThanInput ==
    /\ \A w \in DOMAIN threads : threads[w].alive
    /\ \A r \in CompressRequests :
        \A k \in DOMAIN requests[r].made :
            LET reply == requests[r].made[k] IN
            /\ ByteLen(reply.data) <= ByteLen(requests[r].data)
            /\ reply.compressed => ~IsRaw(reply.data)
            /\ ~reply.compressed => reply.data = requests[r].data

\* C5: every request handed to the pool ends with exactly one reply sent
\* to its sink, and the worker that served it goes on serving.
C5_OneReplyWorkerStays ==
    /\ \A r \in DOMAIN requests :
        /\ requests[r].at # "lost"
        /\ requests[r].at = "replied" => Len(requests[r].made) = 1
        /\ requests[r].at # "replied" => requests[r].made = <<>>
    /\ \A w \in DOMAIN threads : threads[w].alive

\* C6: whatever order the workers finish in, a reply arrives in the sink of
\* the request it was computed from, at most one per sink; an uncompressed
\* reply is that request's input and a whole frame decompresses to it.
C6_ReplyInOwnSink ==
    \A i \in DOMAIN sinks :
        /\ Len(sinks[i].got) <= 1
        /\ \A k \in DOMAIN sinks[i].got :
            LET reply == sinks[i].got[k] IN
            /\ reply.from = i
            /\ (requests[i].request_type = "Compress" /\ ~reply.compressed)
                    => reply.data = requests[i].data
            /\ (requests[i].request_type = "Compress" /\ IsFrame(reply.data))
                    => reply.data[1].of = requests[i].data

\* two requests are out, on two workers, and the later one is answered first
C6_Witness ==
    \E i, j \in DOMAIN sinks :
        /\ i < j
        /\ requests[i].at = "taken"
        /\ sinks[j].got # <<>>
        /\ sinks[j].got[1].from = j

-----------------------------------------------------------------------------
\* Claims on the directory table

\* the headers written for the k-th listing, each with the entries after it
GroupsOf(k) == LET ofListing(g) == g.dir = k IN SelectSeq(groups, ofListing)

\* offset in the directory stream of the first byte of entry p after header g
EntryStart(g, p) == g.at + HeaderBytes + g.raw[p].pos

\* offset in the directory stream of the byte after the name of that entry
EntryEnd(g, p) == EntryStart(g, p) + EntryBytes + g.raw[p].name_len

\* the bytes of the entry records and names after header g
EntriesBytes(g) == IF g.raw = <<>> THEN 0 ELSE EntryEnd(g, Len(g.raw)) - g.at - HeaderBytes

\* the listing entries the records of the groups G were made from, in order
RECURSIVE Originals(_)
Originals(G) ==
    IF G = <<>> THEN <<>>
    ELSE [p \in DOMAIN G[1].raw |-> G[1].raw[p].of] \o Originals(Tail(G))

\* bytes of the groups G: headers, entry records and names
RECURSIVE GroupsBytes(_)
GroupsBytes(G) ==
    IF G = <<>> THEN 0 ELSE HeaderBytes + EntriesBytes(G[1]) + GroupsBytes(Tail(G))

\* C8: in the directory stream, every header is followed by at most 256
\* entries (as many as its count says), every one of them names an inode
\* whose metablock start is the header's start, and stores as inode offset the
\* entry's inode number minus the header's reference inode number, which lies
\* in -32768..32767.
C8_EntriesFitTheirHeader ==
    \A i \in DOMAIN groups :
        LET g == groups[i] IN
        /\ Len(g.raw) <= 256
        /\ g.header.count = Len(g.raw)
        /\ \A p \in DOMAIN g.raw :
            /\ g.raw[p].of.inode.block_start = g.header.start
            /\ g.raw[p].inode_offset = g.raw[p].of.inode_num - g.header.inode_number
            /\ g.raw[p].inode_offset >= -32768
            /\ g.raw[p].inode_offset <= 32767

\* a listing of 257 children: a header with 256 entries, then one with the last
C8_Witness ==
    \E i \in DOMAIN groups :
        /\ i + 1 \in DOMAIN groups
        /\ groups[i].dir = groups[i + 1].dir
        /\ Len(groups[i].raw) = 256
        /\ groups[i + 1].header.inode_number = MIN_INODE_NUM_REF
        /\ groups[i + 1].raw[1].inode_offset = 257 - MIN_INODE_NUM_REF

\* C9: in the stream of a listing, an entry comes right after a new header
\* exactly when it is the listing's first entry, or 256 entries follow the
\* header before it, or its inode metablock start is not that header's, or its
\* inode number minus that header's reference is outside -32768..32767, or the
\* entry before it took the stream into another 8 KiB metablock (the stream
\* offset after its name lies in a later metablock than the offset of its
\* first byte).  256 and 257 children with consecutive inode numbers in one
\* inode metablock get one and two headers; inode numbers 1, 2, 100000 in one
\* inode metablock get two, the second right before the entry of 100000.
C9_HeaderExactlyWhenDue ==
    \A k \in DOMAIN dirs :
        LET G == GroupsOf(k)
            contents == dirs[k].contents
            Crossed(h, q) == EntryStart(h, q) \div SIZE # EntryEnd(h, q) \div SIZE
            \* entry e comes after entry q of header h
            Due(e, h, q) ==
                \/ q >= 256
                \/ e.of.inode.block_start # h.header.start
                \/ e.of.inode_num - h.header.inode_number < -32768
                \/ e.of.inode_num - h.header.inode_number > 32767
                \/ Crossed(h, q)
        IN /\ Originals(G) = contents
           /\ contents # <<>> => (G # <<>> /\ G[1].at = dirs[k].from)
           /\ \A i \in DOMAIN G : G[i].raw # <<>>
           /\ \A i \in DOMAIN G : \A p \in DOMAIN G[i].raw :
                IF p > 1 THEN ~Due(G[i].raw[p], G[i], p - 1)
                ELSE i > 1 => Due(G[i].raw[1], G[i - 1], Len(G[i - 1].raw))
           /\ contents = Plain(256, 4) => Len(G) = 1
           /\ contents = Plain(257, 4) => (Len(G) = 2 /\ Len(G[1].raw) = 256)
           /\ ( /\ Len(contents) = 3
                /\ contents[1].inode_num = 1
                /\ contents[2].inode_num = 2
                /\ contents[3].inode_num = 100000
                /\ contents[2].inode.block_start = contents[1].inode.block_start
                /\ contents[3].inode.block_start = contents[1].inode.block_start
                /\ \A i \in DOMAIN G : \A p \in DOMAIN G[i].raw : ~Crossed(G[i], p) )
              => (Len(G) = 2 /\ Len(G[1].raw) = 2 /\ G[2].raw[1].of.inode_num = 100000)

\* the listing 1, 2, 100000 has been written: two headers, the second
\* right before the entry of 100000
C9_Witness ==
    \E k \in DOMAIN dirs :
        /\ Len(dirs[k].contents) = 3
        /\ dirs[k].contents[1].inode_num = 1
        /\ dirs[k].contents[2].inode_num = 2
        /\ dirs[k].contents[3].inode_num = 100000
        /\ Len(GroupsOf(k)) = 2
        /\ GroupsOf(k)[2].raw[1].of.inode_num = 100000

\* C10: the uncompressed size dir() returns for a listing is the number of
\* bytes the listing added to the directory stream, which is the sum of its
\* headers (12 bytes each), entry records (8 bytes each) and names; an empty
\* listing adds nothing and has size 0.
C10_SizeIsBytesWritten ==
    \A k \in DOMAIN dirs :
        LET G == GroupsOf(k) IN
        /\ dirs[k].uncompressed_size = dirs[k].to - dirs[k].from
        /\ dirs[k].uncompressed_size = GroupsBytes(G)
        /\ \A i \in DOMAIN G :
            /\ G[i].at = IF i = 1 THEN dirs[k].from
                         ELSE G[i - 1].at + HeaderBytes + EntriesBytes(G[i - 1])
            /\ \A p \in DOMAIN G[i].raw :
                /\ G[i].raw[p].name_len = G[i].raw[p].of.name_len
                /\ EntryStart(G[i], p) = IF p = 1 THEN G[i].at + HeaderBytes
                                         ELSE EntryEnd(G[i], p - 1)
        /\ dirs[k].contents = <<>> =>
            (dirs[k].uncompressed_size = 0 /\ dirs[k].to = dirs[k].from /\ G = <<>>)

\* a listing written after another one, under several headers
C10_Witness ==
    \E k \in DOMAIN dirs :
        /\ dirs[k].from > 0
        /\ Len(GroupsOf(k)) >= 2
        /\ dirs[k].uncompressed_size > HeaderBytes + HeaderBytes

-----------------------------------------------------------------------------
\* The UID/GID table

\* the ids passed to the first n calls of add, each once, in order of first call
RECURSIVE FirstSeen(_)
FirstSeen(n) ==
    IF n = 0 THEN <<>>
    ELSE LET before == FirstSeen(n - 1)
             id == id_calls[n].id
         IN IF \E k \in 1..(n - 1) : id_calls[k].id = id THEN before ELSE Append(before, id)

\* the calls of add passed two values in turn
Alternating ==
    /\ Len(id_calls) >= 2
    /\ id_calls[1].id # id_calls[2].id
    /\ \A k \in 3..Len(id_calls) : id_calls[k].id = id_calls[k - 2].id

\* C11: after any sequence of add(id) calls the table holds each distinct id
\* once, in order of first insertion; add returns the same index for the same
\* id; the id stored at the returned index is the id passed; and ids that
\* alternate between two values leave a table of length 2 with every returned
\* index 0 or 1.
C11_IdsOnceInFirstInsertionOrder ==
    /\ ids = FirstSeen(Len(id_calls))
    /\ \A j, k \in 1..Len(id_calls) :
         id_calls[j].id = id_calls[k].id => id_calls[j].idx = id_calls[k].idx
    /\ \A k \in 1..Len(id_calls) :
         /\ id_calls[k].idx + 1 \in 1..Len(ids)
         /\ ids[id_calls[k].idx + 1] = id_calls[k].id
    /\ Alternating =>
         /\ Len(ids) = 2
         /\ \A k \in 1..Len(id_calls) : id_calls[k].idx \in {0, 1}

\* five ids alternating between 1000 and 1001 were added
C11_Witness ==
    /\ Len(id_calls) = 5
    /\ Alternating
    /\ id_calls[1].id = 1000
    /\ id_calls[2].id = 1001

-----------------------------------------------------------------------------
\* The inode table

\* C12: the inode numbers written into inode headers are assigned in order of
\* addition, are pairwise distinct, increase by exactly one from each inode to
\* the next, and range over [1, inode_count].
C12_NumbersDenseFromOne ==
    /\ \A j, k \in 1..Len(inodes) :
         j # k => inodes[j].inode_number # inodes[k].inode_number
    /\ \A k \in 2..Len(inodes) : inodes[k].inode_number = inodes[k - 1].inode_number + 1
    /\ \A k \in 1..Len(inodes) : inodes[k].inode_number \in 1..count

\* the kinds of extended inodes
ExtendedKinds == {k \in 1..14 : k >= Kinds.EXT_DIR}

\* the kinds Table::add may give an entry: the basic and the extended kind of its Data
KindsOf(tag) ==
    CASE tag = "Directory" -> {Kinds.BASIC_DIR, Kinds.EXT_DIR}
      [] tag = "File" -> {Kinds.BASIC_FILE, Kinds.EXT_FILE}
      [] tag = "Symlink" -> {Kinds.BASIC_SYMLINK, Kinds.EXT_SYMLINK}
      [] tag = "BlockDev" -> {Kinds.BASIC_BLOCK_DEV, Kinds.EXT_BLOCK_DEV}
      [] tag = "CharDev" -> {Kinds.BASIC_CHAR_DEV, Kinds.EXT_CHAR_DEV}
      [] tag = "Fifo" -> {Kinds.BASIC_FIFO, Kinds.EXT_FIFO}
      [] tag = "Socket" -> {Kinds.BASIC_SOCKET, Kinds.EXT_SOCKET}

\* the conditions of extension that do not depend on a threshold
ExtendedForOtherReasons(e) ==
    \/ e.data.tag = "File" /\ e.common.hardlink_count > 1
    \/ e.data.tag = "File" /\ (e.data.sparse_bytes.hi > 0 \/ e.data.sparse_bytes.lo # 0)
    \/ e.common.xattr_idx # NO_XATTR
    \/ e.data.tag = "Directory" /\ e.data.header_locations # {}
    \/ e.common.force_ext

\* the conditions of extension as stated: sizes above 2^32 and 2^16
ExtendedAsStated(e) ==
    \/ ExtendedForOtherReasons(e)
    \/ e.data.tag = "File" /\ (e.data.file_size.hi > 1
                               \/ (e.data.file_size.hi = 1 /\ e.data.file_size.lo # 0))
    \/ e.data.tag = "File" /\ (e.data.blocks_start.hi > 1
                               \/ (e.data.blocks_start.hi = 1 /\ e.data.blocks_start.lo # 0))
    \/ e.data.tag = "Directory" /\ dir_stored_size(e.data.dir_size) > 65536

\* the conditions of extension with the sizes a basic inode cannot hold:
\* above 2^32 - 1 and above 2^16 - 1
ExtendedWhenTooWide(e) ==
    \/ ExtendedForOtherReasons(e)
    \/ e.data.tag = "File" /\ e.data.file_size.hi >= 1
    \/ e.data.tag = "File" /\ e.data.blocks_start.hi >= 1
    \/ e.data.tag = "Directory" /\ dir_stored_size(e.data.dir_size) > 65535

\* the header kind is a kind of the entry's data, and the structure written
\* after the header is the one of that kind
KindMatchesBody(i) ==
    /\ i.inode_type \in KindsOf(i.entry.data.tag)
    /\ StructureAfter(i.inode_type) = i.body

C14_SymlinkTailIffExtended ==
    \A k \in 1..Len(inodes) :
        inodes[k].entry.data.tag = "Symlink" =>
            (inodes[k].after_target = 4 <=> inodes[k].inode_type = Kinds.EXT_SYMLINK)

-----------------------------------------------------------------------------
\* The archive writer

\* the superblocks written while a root was set and still among the items
RootedWrites ==
    {k \in 1..Len(file) : file[k].root >= 0 /\ file[k].root < Len(file[k].inode_table)}

\* C15: after flush, the root inode reference stored in the superblock
\* designates the inode that was written for the item passed to set_root; it
\* decodes to block_start 0, offset 0 only when that inode is the first one in
\* the inode table.
C15_RootRefDesignatesRoot ==
    \A k \in RootedWrites :
        LET w == file[k]
            root_inode == w.inode_table[w.root + 1]
        IN /\ w.superblock.root_inode_ref = InodeRef(0, root_inode.at)
           /\ RefDecoded(w.superblock.root_inode_ref) = [block_start |-> 0, start_offset |-> 0]
                => w.root = 0

\* C16: if flush() fails with an I/O error, every operation attempted
\* afterwards (add_item, set_root, another flush, the flush on drop) fails and
\* writes nothing further to the output.
C16_PoisonedAfterIoError ==
    \A k \in 1..Len(ops) :
        ops[k].after_error =>
            /\ ops[k].result \in {"Err", "panic"}
            /\ ~ops[k].wrote

-----------------------------------------------------------------------------
\* The archive reader

\* C20: reading a metablock whose 2-byte header declares an on-disk size
\* greater than 8192 fails with HugeMetablock before any body byte is read or
\* decompressed, for every possible header value.
C20_HugeBeforeBody ==
    (block_read.called /\ block_read.header % 32768 > 8192) =>
        /\ block_read.result = "HugeMetablock"
        /\ \A k \in 1..Len(block_read.reads) : block_read.reads[k].what # "body"
        /\ ~block_read.decompressed

\* a header with the compressed bit and the largest size, read with a codec
C20_Witness ==
    /\ block_read.called
    /\ block_read.header = 65535
    /\ block_read.codec = {"zstd"}
    /\ block_read.result = "HugeMetablock"

\* the superblocks that pass validate_superblock
Validated == opened.called /\ validate_superblock(opened.superblock) = "Ok"

\* the flags word has a bit outside the twelve defined flags
HasUnknownFlag(flags) == flags \div 4096 # 0

\* C17: opening an archive fails with UnsupportedOption if and only if the
\* superblock's flags word contains a bit outside the set of defined flags; a
\* superblock whose flags are all defined ones is never rejected for its flags.
C17_UnknownFlagsRejected ==
    /\ Validated =>
         (opened.result = "UnsupportedOption" <=> HasUnknownFlag(opened.superblock.flags))
    /\ (opened.called /\ opened.result = "UnsupportedOption") =>
         HasUnknownFlag(opened.superblock.flags)

\* block_size is 1 << block_log and lies in [4 KiB, 1 MiB]
SoundBlockSizes(sb) ==
    /\ sb.block_log \in 12..20
    /\ sb.block_size = 2 ^ sb.block_log

\* C18: opening an archive fails with the corrupt-block-sizes error whenever
\* block_size != 1 << block_log or block_size lies outside [4 KiB, 1 MiB], for
\* every block_size and block_log (block_log >= 32 included), and the check
\* never crashes.
C18_BlockSizesChecked ==
    (/\ opened.called
     /\ opened.superblock.magic = MAGIC
     /\ opened.superblock.version_major = 4
     /\ opened.superblock.version_minor = 0
     /\ ~SoundBlockSizes(opened.superblock))
        => opened.result = "CorruptBlockSizes"

\* the reads of metablocks an open made
MetablockReads == SelectSeq(opened.reads, LAMBDA r : r.what \in {"header", "body"})

\* C19: when the superblock sets COMPRESSOR_OPTIONS and is otherwise valid,
\* opening reads exactly one metablock at file offset 96 with no codec bound:
\* if its header marks the body as compressed the open fails with
\* CompressedCompressorOptions, otherwise the body is parsed as the options of
\* the superblock's codec and the archive opens with that configuration.
C19_OptionsMetablockRead ==
    (/\ Validated
     /\ opened.superblock.flags = 1024
     /\ opened.superblock.xattr_id_table_start > opened.superblock.id_table_start)
        => /\ Len(MetablockReads) >= 1
           /\ MetablockReads[1] = [what |-> "header", pos |-> 96, len |-> 2]
           /\ \A k \in 1..Len(MetablockReads) : MetablockReads[k].pos \in {96, 98}
           /\ opened.block.header >= 32768 => opened.result = "CompressedCompressorOptions"
           /\ (opened.block.header <= 8192 /\ opened.block.body # "short"
               /\ opened.block.options_ok)
                 => opened.result = "Ok" /\ opened.codec = "configured"

\* the magic, version and block-size checks of a superblock pass
PassesEarlierChecks(sb) ==
    /\ sb.magic = MAGIC
    /\ sb.version_major = VERSION_MAJOR /\ sb.version_minor = VERSION_MINOR
    /\ sb.block_size \in Shl1(sb.block_log)

\* the build holds the codec of a compression id
BuiltWith(id) == (id = 1 /\ "gzip" \in features) \/ (id = 6 /\ "zstd" \in features)

\* C21: a superblock that passes the magic, version and block-size checks
\* fails with UnknownCompression exactly when its compression id is outside
\* 1..6, and with DisabledCompression exactly when the id is in 1..6 and the
\* build has no codec for it.
C21_CompressionIdChecked ==
    (opened.called /\ PassesEarlierChecks(opened.superblock)) =>
        LET id == opened.superblock.compression_id IN
        /\ opened.result = "UnknownCompression" <=> id \notin 1..6
        /\ opened.result = "DisabledCompression" <=> (id \in 1..6 /\ ~BuiltWith(id))

C21_Witness ==
    /\ opened.called /\ PassesEarlierChecks(opened.superblock)
    /\ opened.superblock.compression_id = 1 /\ "gzip" \notin features
    /\ "zstd" \in features
    /\ opened.result = "DisabledCompression"

\* C22: for every record of a packed type, from_packed of its to_packed is
\* the record again, and the encoding has size() bytes, the sum of the sizes
\* of the type's fields.
C22_PackedRoundTrip ==
    packed.called =>
        /\ packed.result = "Ok"
        /\ packed.back = {packed.value}
        /\ Len(packed.bytes) = Size(packed.ty)

RECURSIVE SizesBefore(_, _)
\* the sum of the sizes of the fields declared before field i
SizesBefore(ty, i) == IF i = 1 THEN 0 ELSE SizesBefore(ty, i - 1) + Size(ty.fields[i - 1])

\* the bytes of field i in an encoding of ty
FieldBytes(ty, bytes, i) ==
    SubSeq(bytes, SizesBefore(ty, i) + 1, SizesBefore(ty, i) + Size(ty.fields[i]))

\* bytes hold the field on its own: an integer least significant byte first,
\* a nested record as its own encoding
HoldsField(fty, fvalue, bytes) ==
    /\ Len(bytes) = Size(fty)
    /\ fty.int => from_le(bytes, fty.signed) = fvalue.n
    /\ ~fty.int => \A fill \in FillBytes : to_packed(fty, fvalue, fill) = {bytes}

\* C23: an encoding that to_packed returns holds the fields in declaration
\* order without padding: field i starts at the sum of the sizes of the
\* fields before it, an integer in little-endian order, a nested record inline.
C23_FieldsInOrderLittleEndian ==
    (packed.called /\ packed.result = "Ok") =>
        IF packed.ty.int THEN HoldsField(packed.ty, packed.value, packed.bytes)
        ELSE /\ Len(packed.bytes) = SizesBefore(packed.ty, Len(packed.ty.fields) + 1)
             /\ \A i \in 1..Len(packed.ty.fields) :
                   HoldsField(packed.ty.fields[i], packed.value.fields[i],
                              FieldBytes(packed.ty, packed.bytes, i))

C23_Witness ==
    /\ packed.called /\ packed.result = "Ok" /\ packed.ty = Outer
    /\ packed.value.fields[1].fields[1].n = 16909060
    /\ packed.value.fields[3].fields[1].n = -1
    /\ packed.bytes = <<4, 3, 2, 1, 18, 255, 255, 255, 255>>

\* the script of the last try_read holds an answer with this error
Answered(err) == \E k \in DOMAIN tried.script : tried.script[k].err = err

C26_AcquireNeverWaits ==
    /\ \A t \in getting : ENABLED PoolGet(t)
    /\ (last_get.called /\ last_get.pool = "blocks" /\ last_get.idle = 0) => last_get.len = 0

C26_Witness ==
    /\ last_get.called /\ last_get.pool = "blocks" /\ last_get.idle = 0
    /\ last_get.in_use = MaxHandles - 1 /\ HandleCount = MaxHandles
    /\ pool_items = <<>>

\* the drop of the ParallelCompressor has ended, by returning or by a panic
DropEnded == joiner.state \in {"done", "panicked"}

\* C27: the drop of the ParallelCompressor closes the request channel before
\* it joins, a worker leaves its loop only on the closed channel with its
\* request finished, and when the drop has ended every worker thread has exited.
C27_DropJoinsEveryWorker ==
    /\ joiner.state # "idle" => sender = "dropped"
    /\ \A w \in returned : sender = "dropped" /\ threads[w].job = 0
    /\ DropEnded => \A w \in DOMAIN threads : ~threads[w].alive

\* the requests whose reply sink the caller dropped
Unawaited == {r \in DOMAIN sinks : ~sinks[r].open}

\* C28: a reply whose sink the caller dropped before the worker finished is
\* discarded: it reaches no sink, the worker that made it does not fail over
\* it (a worker ends only on a request that makes the codec arm itself
\* panic) and is free for the requests that follow.
C28_DroppedSinkIsHarmless ==
    /\ \A r \in Unawaited :
          /\ sinks[r].got = <<>>
          /\ requests[r].at = "replied" =>
                /\ Len(requests[r].made) = 1
                /\ \A w \in DOMAIN threads : threads[w].job = r => ~threads[w].alive
    /\ \A w \in DOMAIN threads :
          ~threads[w].alive =>
              /\ threads[w].job # 0
              /\ \E o \in Served(compressor, threads[w].codec, requests[threads[w].job]) :
                    o.panic

\* one worker made a reply for a dropped sink and then served the next request
C28_Witness ==
    /\ Len(threads) = 1 /\ threads[1].alive /\ threads[1].job = 0
    /\ Len(requests) = 2
    /\ ~sinks[1].open /\ requests[1].at = "replied" /\ Len(requests[1].made) = 1
    /\ sinks[2].open /\ requests[2].at = "replied" /\ sinks[2].got = requests[2].made

\* the blocks of a file that hold zero bytes only
ZeroBlocks(f) ==
    {b \in 1..(Len(f) \div BlockUnits) :
       \A k \in 1..BlockUnits : f[(b - 1) * BlockUnits + k] # "d"}

\* C29: once a file is read to its end, its block-size list holds one sparse
\* marker for each of its all-zero blocks, and no such block was handed on
\* towards the data section, whether or not the stream can skip holes.
C29_ZeroBlocksAreSparseMarkers ==
    (ingest.state # "none" /\ ingest.pos = Len(ingest.file)
     /\ ingest.turns * BlockUnits >= Len(ingest.file)) =>
        /\ Cardinality({k \in DOMAIN ingest.sizes : ingest.sizes[k] = ZERO})
              = Cardinality(ZeroBlocks(ingest.file))
        /\ \A k \in DOMAIN ingest.handed :
              ~(Len(ingest.handed[k]) = BlockUnits
                /\ \A j \in 1..BlockUnits : ingest.handed[k][j] = "z")

\* C30: adding a symlink whose target has length 0 is rejected; add does not
\* return a reference for it and no inode record of it is written.
C30_EmptyTargetRejected ==
    \A k \in DOMAIN inodes :
        (inodes[k].entry.data.tag = "Symlink" /\ inodes[k].entry.data.target_len = 0) =>
            /\ ~inodes[k].returned
            /\ inodes[k].body # "Symlink"

\* C31: after N bytes were appended to a writer without a codec, in any split
\* into records, position() has offset N mod 8192 and block_start
\* floor(N / 8192) * 8194, and floor(N / 8192) metablocks are completed.
C31_PositionAfterBytes ==
    writer = "open" =>
        LET n == ByteLen(appended) IN
        /\ Len(output) = n \div SIZE
        /\ Position(WriterState) = RefNew((n \div SIZE) * (SIZE + 2), n % SIZE)

\* the same away from the block boundary: N is no positive multiple of 8192
C31_OffBoundary ==
    (writer = "open" /\ (ByteLen(appended) % SIZE # 0 \/ appended = <<>>)) =>
        LET n == ByteLen(appended) IN
        /\ Len(output) = n \div SIZE
        /\ Position(WriterState) = RefNew((n \div SIZE) * (SIZE + 2), n % SIZE)

\* the byte of the uncompressed stream a reference of a table without a codec
\* stands for
Linear(ref) == (ref.block_start \div (SIZE + 2)) * SIZE + ref.start_offset

\* the bytes of one inode record: header, body, block-size words, symlink
\* target and xattr index
RecordBytes(i) == StructSize.Header + StructSize[i.body] + Trailer(i.entry)

C32_AfterOtherKinds ==
    \A k \in DOMAIN inodes :
        (inodes[k].returned /\ (k > 1 => inodes[k - 1].body # "BasicDir")) =>
            Linear(inodes[k].at) = IF k = 1 THEN 0
                                   ELSE Linear(inodes[k - 1].at) + RecordBytes(inodes[k - 1])

\* C33: a submit returns as soon as its request is handed over and never waits
\* for a worker to become free; whenever the caller is inside a send with
\* workers alive, some worker can take the request at once.
C33_SubmitNeverWaits ==
    (Sending # {} /\ Alive # {}) => \E w \in Alive : ENABLED Receive(w)

\* C34: ingesting a file terminates; once the end of the input was reached
\* the ingester stops reading, so no turn of its loop begins after a read
\* that came back short.
C34_StopsAtEndOfInput ==
    ingest.state # "none" => ~ingest.late

\* the difference i - r of two u32 held as i32, as a set: the difference if
\* it lies in [-32768, 32767], nothing otherwise
ExactDiff(r, i) ==
    IF (r >= 0) = (i >= 0)
    THEN IF FitsI16(i - r) THEN {i - r} ELSE {}
    ELSE IF i < 0
    THEN \* i >= 2^31 > r: the difference is (i - MinI32) + (MaxI32 - r) + 1
         IF i - MinI32 <= 32767 /\ MaxI32 - r <= 32767
            /\ (i - MinI32) + (MaxI32 - r) + 1 <= 32767
         THEN {(i - MinI32) + (MaxI32 - r) + 1} ELSE {}
    ELSE \* r >= 2^31 > i: the difference is -((r - MinI32) + (MaxI32 - i) + 1)
         IF r - MinI32 <= 32767 /\ MaxI32 - i <= 32767
            /\ (r - MinI32) + (MaxI32 - i) + 1 <= 32768
         THEN {-((r - MinI32) + (MaxI32 - i) + 1)} ELSE {}

\* what C35 says of one call
DiffAsClaimed ==
    /\ ~diffed.out.panic
    /\ diffed.out.some <=> ExactDiff(diffed.ref_num, diffed.i) # {}
    /\ diffed.out.some => diffed.out.diff \in ExactDiff(diffed.ref_num, diffed.i)
    /\ ~diffed.first.panic /\ diffed.first.some

\* C35: for a header reference in [32768, 2^32 - 32768] and any inode number,
\* inode_diff yields i - r exactly when that difference lies in
\* [-32768, 32767] and nothing otherwise, and the entry that starts a header
\* has a representable delta.
C35_DiffExactInWindow ==
    diffed.called => DiffAsClaimed

\* the same in a build without overflow checks
C35_Unchecked ==
    (diffed.called /\ ~build.overflow_checks) => DiffAsClaimed

\* the reply to compress request r is what a worker with a fresh codec makes
\* of that request's input, and if it is marked compressed it is the frame
\* that decompresses to the input
ReplyOfInputOnly(r) ==
    LET reply == requests[r].made[1] IN
    /\ \E o \in CompressArm(compressor, FreshCodec, requests[r].data) :
          ~o.panic /\ reply.data = o.data /\ reply.compressed = o.compressed
    /\ reply.compressed => (IsFrame(reply.data) /\ reply.data[1].of = requests[r].data)

\* C36: a worker's reply to a compress request depends only on the request's
\* input and the codec configuration, not on the requests the worker served
\* before, and a reply marked compressed decompresses to exactly that input.
C36_ReplyIndependentOfHistory ==
    \A r \in DOMAIN requests :
        (requests[r].request_type = "Compress" /\ requests[r].at = "replied") =>
            ReplyOfInputOnly(r)

\* the same for the codec that keeps no stream between calls
C36_Zstd ==
    compressor = "zstd" => C36_ReplyIndependentOfHistory

\* the operation that made the k-th write to the file
WriterOf(k) ==
    CHOOSE j \in 1..Len(ops) :
        ops[j].wrote /\ Cardinality({i \in 1..j : ops[i].wrote}) = k

\* the items that were added to the archive before operation j
AddedBefore(j) == Cardinality({i \in 1..(j - 1) : ops[i].op = "add_item"})

\* C37: every superblock the assembler writes at offset 0, by a first flush,
\* a repeated flush or the flush of drop, records inode_count equal to the
\* number of items that were added to the archive.
C37_InodeCountIsItemsAdded ==
    \A k \in 1..Len(file) :
        file[k].pos = 0 => file[k].superblock.inode_count = AddedBefore(WriterOf(k))

\* the same for the superblock of the first flush of the archive
C37_FirstFlush ==
    \A k \in 1..Len(file) :
        (\A i \in 1..(WriterOf(k) - 1) : ops[i].op \notin {"flush", "drop"}) =>
            file[k].superblock.inode_count = AddedBefore(WriterOf(k))

\* the inode i, written in basic form, holds every narrowed field exactly
BasicHoldsExactly(i) ==
    /\ i.body = "BasicFile" =>
          /\ TryU32(i.entry.data.file_size) # {}
          /\ TryU32(i.entry.data.blocks_start) # {}
          /\ i.entry.common.hardlink_count <= 1
          /\ ~AboveZero(i.entry.data.sparse_bytes)
          /\ ~xattr_is_some(i.entry.common.xattr_idx)
    /\ i.body = "BasicDir" =>
          /\ TryU16(dir_stored_size(i.entry.data.dir_size)) # {}
          /\ i.entry.data.header_locations = {}
          /\ ~xattr_is_some(i.entry.common.xattr_idx)

\* C38: whenever an inode is written in basic form, every field the basic
\* form narrows holds its value exactly: a basic file has file size and
\* blocks_start below 2^32, at most one hard link, no sparse count and no
\* xattr index; a basic directory has a size of at most 16 bits and no header
\* index. No narrowing conversion on the basic path fails.
C38_BasicFormHoldsItsFields ==
    \A k \in DOMAIN inodes : BasicHoldsExactly(inodes[k])

\* a basic file of 2^32 - 1 bytes followed by a basic directory of 2^16 - 1
C38_Witness ==
    /\ Len(inodes) = 2
    /\ inodes[1].body = "BasicFile" /\ inodes[1].inode_type = Kinds.BASIC_FILE
    /\ inodes[1].entry.data.file_size = U64(0, -1)
    /\ inodes[2].body = "BasicDir" /\ inodes[2].inode_type = Kinds.BASIC_DIR
    /\ inodes[2].entry.data.dir_size = U16_MAX

\* C39: every child a directory item refers to was added to the archive
\* before that directory, its item index is smaller, so the item graph is
\* acyclic and each child's inode is written before its parent's.
C39_ChildrenAddedBefore ==
    \A i \in 1..Len(items) :
        \A e \in 1..Len(items[i].entries) : items[i].entries[e].item_ref < i - 1

\* the same as long as no flush has emptied the archive's list of items
C39_BeforeFlush ==
    (\A j \in 1..Len(ops) : ops[j].op # "flush") => C39_ChildrenAddedBefore

\* the last call of add_item that gave the name
LastCall(name) ==
    CHOOSE k \in 1..Len(builder.calls) :
        /\ builder.calls[k].name = name
        /\ \A j \in (k + 1)..Len(builder.calls) : builder.calls[j].name # name

\* C40: after any sequence of add_item calls on a directory builder its
\* entries are ordered by name bytes and names are unique; each name that was
\* given is present with the target of the last call that gave it, so a
\* later call replaces the earlier target, and one item may stand under
\* several names.
C40_EntriesOrderedUniqueLastWins ==
    builder.state = "building" =>
        /\ \A k \in 1..(Len(builder.entries) - 1) :
              BytesLess(builder.entries[k].name, builder.entries[k + 1].name)
        /\ {builder.entries[k].name : k \in 1..Len(builder.entries)}
              = {builder.calls[k].name : k \in 1..Len(builder.calls)}
        /\ \A k \in 1..Len(builder.entries) :
              builder.entries[k].item_ref
                = builder.calls[LastCall(builder.entries[k].name)].item_ref

\* "b" was given for item 0, then "aa" for item 1, then "b" again for item 1:
\* two names in order, both for one item, the first target of "b" replaced
C40_Witness ==
    /\ builder.state = "building"
    /\ builder.calls = <<[name |-> <<98>>, item_ref |-> 0], [name |-> <<97, 97>>, item_ref |-> 1],
                          [name |-> <<98>>, item_ref |-> 1]>>
    /\ builder.entries = <<[name |-> <<97, 97>>, item_ref |-> 1], [name |-> <<98>>, item_ref |-> 1]>>

====
